---------------------------- MODULE Spec2Model ----------------------------
(***************************************************************************)
(* Sparvio Serial Protocol (SSP), Python implementation: the per-node      *)
(* protocol engine (core/componentbase.py), the central authority          *)
(* (core/network.py) and the ticket table, as state machines.              *)
(*                                                                         *)
(* A node's handlers are modelled as operators over a node record that     *)
(* return the record after the handler, the messages it sent and the       *)
(* events it emitted.  The network specifications connect several such     *)
(* nodes by links that deliver in order (a serial line); every node runs   *)
(* in a process of its own, so componentbase.all_componentbases holds      *)
(* only the node itself.                                                   *)
(***************************************************************************)
EXTENDS Integers, Sequences, FiniteSets, TLC

VARIABLES
    node,      \* node name -> the ComponentBase fields of that node
    chan,      \* link -> messages sent on the link, not yet handled by its peer
    probes,    \* runs of Networker.loop so far, over all nodes (capped)
    steps,     \* calls made by the environment of the single node (capped)
    call,      \* calling thread -> where it is in an outbound call, and its ticket
    lock,      \* the thread holding the node's _lock, or "free"
    hist,      \* node name -> what has happened to the node (observation only)
    obs,       \* what the last step did (observation only)
    scenario   \* which configuration Init chose

vars == <<node, chan, probes, steps, call, lock, hist, obs, scenario>>

---------------------------------------------------------------------------
\* Protocol constants

SSP_INVALID_COMPONENT_ID == 0
SSP_CENTRAL_ID == 1
SSP_LINK_ID == 255
SSP_COMPONENT_MODULUS == 128
SSP_BIGGEST_REGULAR_COMPONENT_ID == SSP_COMPONENT_MODULUS - 4
SSP_VERSION == 3
SSP_MAGIC_BYTE == 166
PriorityCap == 255
RenameTries == 199

\* Bounds of the model: runs of Networker.loop, over all nodes
MaxProbes == 3
MaxStarProbes == 2
\* ... and calls made by the environment of the single node
MaxEnvSteps == 3
\* ... and tickets requested in the ticket specification
MaxAllocs == 4
\* ... calls started in the call specification, and messages waiting in the
\* queue of one call
MaxCalls == 2
MaxQueue == 1
\* ... and replies, acks and nacks the peer sends of its own accord
MaxReplies == 2

---------------------------------------------------------------------------
\* The nodes and links of the modelled installations

Nodes == {"A", "B", "M", "D"}
Callers == {"t1", "t2"}   \* threads making outbound calls on one node
Links == 1..6
NoLink == 0
NoCentral == <<>>   \* _central is None
NoneId == -1   \* Python None where an id is expected

\* Link l belongs to Owner(l); what is sent on l is handled by Owner(Peer(l))
\* with from_link = Peer(l).
Owner(l) ==
    CASE l = 1 -> "A" [] l = 2 -> "B" [] l = 3 -> "A"
      [] l = 4 -> "M" [] l = 5 -> "M" [] l = 6 -> "D"

Peer(l) ==
    CASE l = 1 -> 2 [] l = 2 -> 1 [] l = 3 -> 4
      [] l = 4 -> 3 [] l = 5 -> 6 [] l = 6 -> 5

\* Names are a stem and a numeric suffix: <<"gps", 0>> is "gps", <<"gps", 2>>
\* is "gps_2".  Stems hold no underscore.
EmptyName == <<"", 0>>
Name(stem) == <<stem, 0>>

---------------------------------------------------------------------------
\* Small helpers for dicts (functions with a finite domain) and lists

Put(f, k, v) == [x \in (DOMAIN f) \cup {k} |-> IF x = k THEN v ELSE f[x]]
EmptyDict == [x \in {} |-> 0]
Has(f, k) == k \in DOMAIN f

\* list.index(x), 0-based; -1 when absent (Python raises ValueError)
IndexOf(seq, x) ==
    IF \E i \in 1..Len(seq) : seq[i] = x
    THEN (CHOOSE i \in 1..Len(seq) : seq[i] = x /\ \A j \in 1..(i-1) : seq[j] # x) - 1
    ELSE -1

Min(S) == CHOOSE x \in S : \A y \in S : x <= y

\* del f[k]
Del(f, k) == [x \in (DOMAIN f) \ {k} |-> f[x]]

---------------------------------------------------------------------------
\* Messages.  One record shape for all actions; fields an action does not
\* carry are 0 / EmptyName.

Msg(a, id, prio, serial, name, tk, from, ver, magicByte, parent) ==
    [a |-> a, id |-> id, prio |-> prio, serial |-> serial, name |-> name,
     tk |-> tk, from |-> from, ver |-> ver, magicByte |-> magicByte,
     parent |-> parent]

NewId(id, tk, prio, name) ==
    Msg("newid", id, prio, 0, name, tk, 0, 0, 0, 0)

AppMsg(a, tk, from) ==
    Msg(a, 0, 0, 0, EmptyName, tk, from, 0, 0, 0)

Send(link, to, msg) == [link |-> link, to |-> to, msg |-> msg]

\* What a handler returns: the node after it, the messages sent (in order),
\* the events emitted (in order), and whether it ended by an exception.
Res(st, out, evts) == [st |-> st, out |-> out, evts |-> evts, crashed |-> FALSE]
Crash(st, out, evts) == [st |-> st, out |-> out, evts |-> evts, crashed |-> TRUE]

Evt(kind) == [k |-> kind, n |-> 0]
EvtN(kind, n) == [k |-> kind, n |-> n]
HasEvt(evts, kind) == \E i \in 1..Len(evts) : evts[i].k = kind

---------------------------------------------------------------------------
\* ComponentBase: the fields set by __init__, for a node in a process of
\* its own.  constructed is FALSE between SystemViewComponent setting
\* base_priority and its call of act_as_central.

NewBase(name, serial, base_priority, links) ==
    [componentId |-> 0, priority |-> 0, base_priority |-> base_priority,
     parent |-> 0, serial |-> serial, name |-> name,
     routes |-> EmptyDict,
     link_neighbors |-> [l \in {links[i] : i \in 1..Len(links)} |-> 0],
     links |-> links,
     central |-> NoCentral,
     reply_callbacks |-> EmptyDict, last_ticket |-> 0,
     obj_to_subscribers |-> EmptyDict,
     constructed |-> (base_priority = 0)]

is_central(st) == st.componentId = SSP_CENTRAL_ID

\* parent_link raises KeyError when the parent has no route
ParentLinkRaises(st) == st.parent # 0 /\ ~Has(st.routes, st.parent)
parent_link(st) == IF st.parent = 0 THEN NoLink ELSE st.routes[st.parent]

register_neighbor(st, link, componentId) ==
    [st EXCEPT !.link_neighbors = Put(@, link, componentId),
               !.routes = Put(@, componentId, link)]

get_our_cinfo(st, toLink) ==
    Msg("cinfo", st.componentId,
        IF toLink = parent_link(st) THEN st.base_priority ELSE st.priority,
        st.serial, st.name, 0, 0, SSP_VERSION, SSP_MAGIC_BYTE, st.parent)

forget_network(st) ==
    Res([st EXCEPT !.parent = 0,
                   !.link_neighbors = [l \in DOMAIN @ |-> 0]],
        <<>>,
        <<Evt("traceEvt:Forget network"), Evt("on_non_networked")>>)

---------------------------------------------------------------------------
\* Central (core/network.py)

is_valid_component_id(id) ==
    /\ id # SSP_INVALID_COMPONENT_ID
    /\ id # SSP_LINK_ID
    /\ id > 0
    /\ id <= SSP_BIGGEST_REGULAR_COMPONENT_ID

\* Central.__init__ / init_all_local: one entry per ComponentBase of the
\* process, with the id the base has at that moment.
init_all_local(st) ==
    << [id |-> st.componentId, name |-> st.name, serial |-> st.serial] >>

HasKey(ac, key, value) == \E i \in 1..Len(ac) : ac[i][key] = value
key_to_info(ac, key, value) ==
    ac[Min({i \in 1..Len(ac) : ac[i][key] = value})]

_find_free_id(ac) ==
    LET free_ids == (1..(SSP_BIGGEST_REGULAR_COMPONENT_ID - 1))
                        \ {ac[i].id : i \in 1..Len(ac)}
    IN IF free_ids = {} THEN NoneId ELSE Min(free_ids)

_do_register(ac, id, name, serial) ==
    LET free == {ix \in 1..RenameTries : ~HasKey(ac, "name", <<name[1], ix>>)}
        new_name == IF HasKey(ac, "name", name)
                    THEN <<name[1], IF free = {} THEN RenameTries ELSE Min(free)>>
                    ELSE name
    IN Append(ac, [id |-> id, name |-> new_name, serial |-> serial])

\* Variant of register that does not look the serial up
register_by_id_only(ac, cinfo) ==
    LET valid == is_valid_component_id(cinfo.id)
        known_id == valid /\ HasKey(ac, "id", cinfo.id)
        suggested_id == IF known_id THEN NoneId ELSE cinfo.id
        final_id == IF suggested_id \in {NoneId, 0}
                    THEN _find_free_id(ac) ELSE suggested_id
    IN IF known_id /\ key_to_info(ac, "id", cinfo.id).serial = cinfo.serial
       THEN [id |-> cinfo.id, ac |-> ac]
       ELSE [id |-> final_id,
             ac |-> _do_register(ac, final_id, cinfo.name, cinfo.serial)]

\* register, lines 107-131: the call comes to `if not suggested_id` with no
\* id to use and asks _find_free_id for one
must_allocate(ac, cinfo) ==
    LET valid == is_valid_component_id(cinfo.id)
        known_id == valid /\ HasKey(ac, "id", cinfo.id)
    IN /\ ~(known_id /\ key_to_info(ac, "id", cinfo.id).serial = cinfo.serial)
       /\ ~(cinfo.serial # 0 /\ HasKey(ac, "serial", cinfo.serial))
       /\ (known_id \/ cinfo.id = 0)

\* register returns the id and the directory after the call
register(ac, cinfo) ==
    LET valid == is_valid_component_id(cinfo.id)
        known_id == valid /\ HasKey(ac, "id", cinfo.id)
        suggested_id == IF known_id THEN NoneId ELSE cinfo.id
        final_id == IF suggested_id \in {NoneId, 0}
                    THEN _find_free_id(ac) ELSE suggested_id
    IN IF known_id /\ key_to_info(ac, "id", cinfo.id).serial = cinfo.serial
       THEN [id |-> cinfo.id, ac |-> ac]
       ELSE IF cinfo.serial # 0 /\ HasKey(ac, "serial", cinfo.serial)
       THEN [id |-> key_to_info(ac, "serial", cinfo.serial).id, ac |-> ac]
       ELSE [id |-> final_id,
             ac |-> _do_register(ac, final_id, cinfo.name, cinfo.serial)]

\* Variant of act_as_central that takes id 1 but neither sets the priority
\* nor fires on_networked
act_as_central_quiet(st) ==
    IF st.central # NoCentral THEN Crash(st, <<>>, <<>>)
    ELSE Res([st EXCEPT !.central = init_all_local(st),
                        !.componentId = SSP_CENTRAL_ID, !.parent = 0],
             <<>>, <<Evt("act_as_central")>>)

\* ComponentBase.act_as_central, with Central.__init__ and
\* Central.act_as_central
act_as_central(st) ==
    IF st.central # NoCentral THEN Crash(st, <<>>, <<>>)
    ELSE LET s1 == [st EXCEPT !.central = init_all_local(st)]
         IN IF ~(s1.base_priority > 0) THEN Crash(s1, <<>>, <<>>)
            ELSE Res([s1 EXCEPT !.priority = s1.base_priority,
                                !.componentId = SSP_CENTRAL_ID,
                                !.parent = 0],
                     <<>>, <<Evt("act_as_central"), Evt("on_networked")>>)

\* Variant of Central.handle_link_cinfo that registers the candidate and
\* never answers
Central_handle_link_cinfo_mute(st, from_link, msg) ==
    LET reg == register(st.central, msg)
    IN Res([st EXCEPT !.central = reg.ac], <<>>, <<>>)

Central_handle_link_cinfo(st, from_link, msg) ==
    LET prio == IF st.priority + 1 < PriorityCap THEN st.priority + 1 ELSE PriorityCap
        reg == register(st.central, msg)
        name == key_to_info(reg.ac, "id", reg.id).name
        newid_msg == NewId(reg.id, st.componentId, prio,
                           IF name = msg.name THEN EmptyName ELSE name)
        s1 == [st EXCEPT !.priority = prio, !.central = reg.ac,
                         !.routes = Put(@, reg.id, from_link)]
    IN IF ~HasKey(reg.ac, "id", reg.id)
       THEN Crash([st EXCEPT !.priority = prio, !.central = reg.ac], <<>>, <<>>)
       ELSE Res(register_neighbor(s1, from_link, reg.id),
                <<Send(from_link, SSP_LINK_ID, newid_msg)>>, <<>>)

Central_handle_net_cinfo(st, from_link, msg) ==
    LET prio == IF st.priority + 1 < PriorityCap THEN st.priority + 1 ELSE PriorityCap
        reg == register(st.central, msg)
        name == key_to_info(reg.ac, "id", reg.id).name
        newid_msg == NewId(reg.id, msg.tk, prio,
                           IF name = msg.name THEN EmptyName ELSE name)
    IN IF msg.prio > st.priority THEN Crash(st, <<>>, <<>>)
       ELSE IF ~HasKey(reg.ac, "id", reg.id)
       THEN Crash([st EXCEPT !.priority = prio, !.central = reg.ac], <<>>, <<>>)
       ELSE Res([st EXCEPT !.priority = prio, !.central = reg.ac,
                           !.routes = Put(@, reg.id, from_link)],
                <<Send(from_link, msg.id, newid_msg)>>, <<>>)

---------------------------------------------------------------------------
\* ComponentBase: the topology handlers (called with the node's lock held)

\* Variant of the tie-break in which the lower serial gives way
_handle_link_cinfo_tail_reversed(st, from_link, msg, evts) ==
    IF msg.prio = st.priority /\ st.serial # 0 /\ msg.serial = st.serial
    THEN Res(st, <<>>, evts \o <<Evt("linkEvt:direct loop detected")>>)
    ELSE
    LET s1 == IF msg.prio = st.priority /\ msg.serial > st.serial
              THEN [st EXCEPT !.priority = @ - 1] ELSE st
    IN IF msg.prio > s1.priority
       THEN LET f == forget_network(s1)
                s2 == [f.st EXCEPT !.routes = Put(@, msg.id, from_link),
                                   !.priority = msg.prio - 1]
            IN Res(s2, <<Send(from_link, SSP_LINK_ID, get_our_cinfo(s2, from_link))>>,
                   evts \o f.evts \o <<Evt("linkEvt:Will be child")>>)
       ELSE IF is_central(s1) /\ s1.central # NoCentral
       THEN LET c == Central_handle_link_cinfo(s1, from_link, msg)
            IN [c EXCEPT !.evts = evts \o @]
       ELSE Res(s1, <<>>, evts)

\* Variant of the tie-break in which nobody gives way
tie_break_none(st, msg) == st

\* lines 450-458, past the test for a direct loop: the receiver with the
\* higher serial lowers its priority
tie_break(st, msg) ==
    IF msg.prio = st.priority /\ msg.serial < st.serial
    THEN [st EXCEPT !.priority = @ - 1] ELSE st

\* lines 444-448: the node as it enters the tie-break
tie_entry(st, from_link) ==
    IF from_link # parent_link(st) THEN st
    ELSE LET f == forget_network(st)
         IN IF f.st.base_priority > 0 THEN act_as_central(f.st).st ELSE f.st

_handle_link_cinfo_tail(st, from_link, msg, evts) ==
    \* lines 450-492, entered with the events emitted so far
    IF msg.prio = st.priority /\ st.serial # 0 /\ msg.serial = st.serial
    THEN Res(st, <<>>, evts \o <<Evt("linkEvt:direct loop detected")>>)
    ELSE
    LET s1 == tie_break(st, msg)
    IN IF msg.prio > s1.priority
       THEN LET f == forget_network(s1)
                s2 == [f.st EXCEPT !.routes = Put(@, msg.id, from_link),
                                   !.priority = msg.prio - 1]
            IN Res(s2, <<Send(from_link, SSP_LINK_ID, get_our_cinfo(s2, from_link))>>,
                   evts \o f.evts \o <<Evt("linkEvt:Will be child")>>)
       ELSE IF is_central(s1)
       THEN IF s1.central = NoCentral
            THEN Crash(s1, <<>>, evts)
            ELSE LET c == Central_handle_link_cinfo(s1, from_link, msg)
                 IN [c EXCEPT !.evts = evts \o @]
       ELSE IF parent_link(s1) # NoLink
       THEN LET netMsg == [msg EXCEPT !.tk = IndexOf(s1.links, parent_link(s1)),
                                      !.from = s1.componentId]
            IN Res(s1, <<Send(parent_link(s1), SSP_CENTRAL_ID, netMsg)>>, evts)
       ELSE Res(s1, <<>>,
                evts \o <<Evt("err:Ignoring cinfo where none is networked")>>)

_handle_link_cinfo(st, from_link, msg) ==
    IF msg.ver # SSP_VERSION
    THEN Res(st, <<>>, <<Evt("err:cinfo with wrong VERSION")>>)
    ELSE IF msg.magicByte # SSP_MAGIC_BYTE
    THEN Res(st, <<>>, <<Evt("err:cinfo with wrong MAGIC_BYTE")>>)
    ELSE IF ParentLinkRaises(st) THEN Crash(st, <<>>, <<>>)
    ELSE IF from_link = parent_link(st)
    THEN LET f == forget_network(st)
         IN IF f.st.base_priority > 0
            THEN LET c == act_as_central(f.st)
                 IN IF c.crashed THEN [c EXCEPT !.evts = f.evts \o @]
                    ELSE _handle_link_cinfo_tail(c.st, from_link, msg, f.evts \o c.evts)
            ELSE _handle_link_cinfo_tail(f.st, from_link, msg, f.evts)
    ELSE _handle_link_cinfo_tail(st, from_link, msg, <<>>)

_handle_link_newid(st, from_link, msg) ==
    LET parent == msg.tk
        e0 == IF parent \in {SSP_INVALID_COMPONENT_ID, SSP_LINK_ID}
                 \/ parent >= SSP_COMPONENT_MODULUS
              THEN <<Evt("err:Invalid from")>> ELSE <<>>
    IN IF ParentLinkRaises(st) THEN Crash(st, <<>>, e0)
       ELSE
       LET f == IF from_link = parent_link(st) THEN forget_network(st)
                ELSE Res(st, <<>>, <<>>)
           s1 == f.st
           e1 == e0 \o f.evts
       IN IF msg.prio < s1.priority
          THEN Res(s1, <<>>, e1 \o <<Evt("linkEvt:Ignoring lower prio")>>)
          ELSE
          LET e2 == IF s1.central # NoCentral
                    THEN e1 \o <<Evt("traceEvt:stop acting as central")>> ELSE e1
              routes1 == Put(EmptyDict, parent, from_link)
          IN Res([s1 EXCEPT
                    !.central = NoCentral,
                    !.link_neighbors = Put(EmptyDict, from_link, parent),
                    !.routes = IF parent # SSP_CENTRAL_ID
                               THEN Put(routes1, SSP_CENTRAL_ID, from_link)
                               ELSE routes1,
                    !.componentId = msg.id,
                    !.priority = msg.prio,
                    !.name = IF msg.name # EmptyName THEN msg.name ELSE @,
                    !.parent = parent],
                 <<>>, e2 \o <<Evt("on_networked")>>)

_handle_net_cinfo(st, from_link, msg) ==
    IF msg.ver # SSP_VERSION
    THEN Res(st, <<>>, <<Evt("err:cinfo with wrong VERSION")>>)
    ELSE IF msg.magicByte # SSP_MAGIC_BYTE
    THEN Res(st, <<>>, <<Evt("err:cinfo with wrong MAGIC_BYTE")>>)
    ELSE IF ~is_central(st)
    THEN Res(st, <<>>, <<Evt("err:ignoring cinfo as we're not central")>>)
    ELSE IF st.central = NoCentral THEN Crash(st, <<>>, <<>>)
    ELSE Central_handle_net_cinfo(st, from_link, msg)

_handle_net_newid(st, from_link, msg) ==
    IF ~(msg.tk \in 0..(Len(st.links) - 1))
    THEN Res(st, <<>>, <<Evt("err:invalid net newid")>>)
    ELSE LET to_link == st.links[msg.tk + 1]
             link_msg == NewId(msg.id, st.componentId, msg.prio, msg.name)
         IN Res(register_neighbor(st, to_link, msg.id),
                <<Send(to_link, SSP_LINK_ID, link_msg)>>,
                <<Evt("linkEvt:converting net newid to link newid")>>)

---------------------------------------------------------------------------
\* ComponentBase.handle_message and ComponentBase.send

\* Variant of the dispatch that passes over a ticket it does not know
dispatch_reply_silent(st, msg) ==
    IF msg.tk = NoneId
    THEN Res(st, <<>>, <<Evt("err:no ticket")>>)
    ELSE IF ~Has(st.reply_callbacks, msg.tk)
    THEN Res(st, <<>>, <<>>)
    ELSE Res(st, <<>>, <<EvtN("reply_callback", msg.tk)>>)

\* lines 323-334 and 364-375: reply, ack and nack are dispatched by ticket.
\* A message without a 'tk' field carries tk = NoneId here.
dispatch_reply(st, msg) ==
    IF msg.tk = NoneId
    THEN Res(st, <<>>, <<Evt("err:no ticket")>>)
    ELSE IF ~Has(st.reply_callbacks, msg.tk)
    THEN Res(st, <<>>, <<EvtN("err:unknown ticket", msg.tk)>>)
    ELSE Res(st, <<>>, <<EvtN("reply_callback", msg.tk)>>)

\* Variant of route_message without the comparison of the next hop with the
\* inbound link
route_message_resend(st, from_link, to, msg) ==
    LET componentId == to % SSP_COMPONENT_MODULUS
    IN IF Has(st.routes, componentId)
       THEN Res(st, <<Send(st.routes[componentId], to, msg)>>, <<Evt("routeMsgEvt")>>)
       ELSE IF ParentLinkRaises(st) THEN Crash(st, <<>>, <<>>)
       ELSE IF parent_link(st) # NoLink
       THEN Res(st, <<Send(parent_link(st), to, msg)>>, <<Evt("routeMsgEvt")>>)
       ELSE Res(st, <<>>, <<Evt("err:Dropping msg due to no route")>>)

\* Variant of route_message that gives up on a message without a route and
\* says nothing
route_message_silent(st, from_link, to, msg) ==
    LET componentId == to % SSP_COMPONENT_MODULUS
    IN IF Has(st.routes, componentId)
       THEN LET to_link == st.routes[componentId]
            IN IF to_link = from_link
               THEN Res(st, <<>>, <<Evt("err:Dropping msg that would be sent back on same link")>>)
               ELSE Res(st, <<Send(to_link, to, msg)>>, <<Evt("routeMsgEvt")>>)
       ELSE IF ParentLinkRaises(st) THEN Crash(st, <<>>, <<>>)
       ELSE IF parent_link(st) # NoLink
       THEN IF parent_link(st) = from_link
            THEN Res(st, <<>>, <<Evt("err:Dropping msg with unknown recipient")>>)
            ELSE Res(st, <<Send(parent_link(st), to, msg)>>, <<Evt("routeMsgEvt")>>)
       ELSE Res(st, <<>>, <<>>)

\* lines 400-424: a message for another component is forwarded by the
\* routing table, else towards the parent, else reported
route_message(st, from_link, to, msg) ==
    LET componentId == to % SSP_COMPONENT_MODULUS
    IN IF Has(st.routes, componentId)
       THEN LET to_link == st.routes[componentId]
            IN IF to_link = from_link
               THEN Res(st, <<>>, <<Evt("err:Dropping msg that would be sent back on same link")>>)
               ELSE IF IndexOf(st.links, to_link) < 0 THEN Crash(st, <<>>, <<>>)
               ELSE Res(st, <<Send(to_link, to, msg)>>, <<Evt("routeMsgEvt")>>)
       ELSE IF ParentLinkRaises(st) THEN Crash(st, <<>>, <<>>)
       ELSE IF parent_link(st) # NoLink
       THEN IF parent_link(st) = from_link
            THEN Res(st, <<>>, <<Evt("err:Dropping msg with unknown recipient")>>)
            ELSE IF IndexOf(st.links, parent_link(st)) < 0 THEN Crash(st, <<>>, <<>>)
            ELSE Res(st, <<Send(parent_link(st), to, msg)>>, <<Evt("routeMsgEvt")>>)
       ELSE Res(st, <<>>, <<Evt("err:Dropping msg due to no route")>>)

IsReplyCmd(cmd) == cmd \in {"reply", "ack", "nack"}

RECURSIVE handle_message(_, _, _, _)
RECURSIVE send(_, _, _)

\* from_link is a link of the node, or the node's own id when send() hands
\* the node a message of its own
handle_message(st, from_link, to, msg) ==
    IF to = SSP_INVALID_COMPONENT_ID
    THEN Res(st, <<>>, <<Evt("err:invalid to")>>)
    ELSE IF to = st.componentId /\ st.componentId # SSP_INVALID_COMPONENT_ID
    THEN CASE msg.a = "cinfo" -> _handle_net_cinfo(st, from_link, msg)
           [] msg.a = "newid" -> _handle_net_newid(st, from_link, msg)
           [] IsReplyCmd(msg.a) -> dispatch_reply(st, msg)
           [] msg.a = "getVarList" ->
                send(st, msg.from, Msg("reply", 0, 0, 0, EmptyName, msg.tk,
                                       st.componentId, 0, 0, 0))
           [] OTHER -> Res(st, <<>>, <<Evt("component.handle_message")>>)
    ELSE IF to = SSP_LINK_ID
    THEN CASE IsReplyCmd(msg.a) -> dispatch_reply(st, msg)
           [] msg.a = "cinfo" -> _handle_link_cinfo(st, from_link, msg)
           [] msg.a = "newid" -> _handle_link_newid(st, from_link, msg)
           [] OTHER -> Res(st, <<>>, <<>>)
    ELSE route_message(st, from_link, to, msg)

\* send() asserts that <to> is neither the link address nor component 0
send(st, to, msg) ==
    LET toComponent == to % SSP_COMPONENT_MODULUS
    IN IF to = SSP_LINK_ID \/ toComponent = SSP_INVALID_COMPONENT_ID
       THEN Crash(st, <<>>, <<>>)
       ELSE IF Has(st.routes, toComponent)
       THEN Res(st, <<Send(st.routes[toComponent], to, msg)>>, <<>>)
       ELSE IF toComponent = st.componentId
       THEN handle_message(st, st.componentId, st.componentId, msg)
       ELSE IF ~is_central(st) /\ Has(st.routes, SSP_CENTRAL_ID)
       THEN Res(st, <<Send(st.routes[SSP_CENTRAL_ID], to, msg)>>, <<>>)
       ELSE Res(st, <<>>, <<Evt("err:no route")>>)

---------------------------------------------------------------------------
\* Networker.loop (core/network.py): announce on every link whose
\* neighbour is unknown.  Every link probes automatically (the default).

ProbeLinks(st) == {l \in DOMAIN st.link_neighbors : st.link_neighbors[l] = 0}

RECURSIVE ProbeSends(_, _)
ProbeSends(st, links) ==
    IF links = {} THEN <<>>
    ELSE LET l == Min(links)
         IN <<Send(l, SSP_LINK_ID, get_our_cinfo(st, l))>>
                \o ProbeSends(st, links \ {l})

Networker_loop(st) ==
    IF ~(st.componentId < SSP_COMPONENT_MODULUS) \/ ParentLinkRaises(st)
    THEN Crash(st, <<>>, <<>>)
    ELSE Res(st, ProbeSends(st, ProbeLinks(st)), <<>>)

---------------------------------------------------------------------------
\* The state machine

NoMsg == AppMsg("none", 0, 0)

\* What the last step was: the operation, the node and its state before the
\* operation, the operation's inputs, and what it sent and emitted
Obs(op, n, pre, from_link, to, msg, r) ==
    [op |-> op, node |-> n, pre |-> pre, from_link |-> from_link, to |-> to,
     msg |-> msg, out |-> r.out, evts |-> r.evts, crashed |-> r.crashed]

\* The links among <out> on which a cinfo addressed to the central is sent
NetCinfoLinks(out) ==
    {out[i].link : i \in {j \in 1..Len(out) :
                            out[j].to = SSP_CENTRAL_ID /\ out[j].msg.a = "cinfo"}}

NoHist == [yielded |-> FALSE, networked |-> FALSE, crashed |-> FALSE,
           asked_for |-> {}, newid_on |-> {}]

\* yielded: took the "Will be child" branch; networked: on_networked fired;
\* crashed: a handler ended by an exception; asked_for: the links whose
\* neighbour's cinfo the node passed on to the central; newid_on: the links
\* over which the node was handed a link newid.
Record(h, r, from_link, to, msg) ==
    [yielded |-> h.yielded \/ HasEvt(r.evts, "linkEvt:Will be child"),
     networked |-> h.networked \/ HasEvt(r.evts, "on_networked"),
     crashed |-> h.crashed \/ r.crashed,
     asked_for |-> IF NetCinfoLinks(r.out) # {} /\ to = SSP_LINK_ID
                   THEN h.asked_for \cup {from_link} ELSE h.asked_for,
     newid_on |-> IF msg.a = "newid" /\ to = SSP_LINK_ID
                  THEN h.newid_on \cup {from_link} ELSE h.newid_on]

RECURSIVE SentOn(_, _)
SentOn(out, l) ==
    IF out = <<>> THEN <<>>
    ELSE (IF Head(out).link = l
          THEN <<[to |-> Head(out).to, msg |-> Head(out).msg]>> ELSE <<>>)
         \o SentOn(Tail(out), l)

Inert(n) == NewBase(Name(n), 0, 0, <<>>)

\* What a call came to (see rpc_outcome below); none yet
NoResult == [case |-> "none", exc |-> "", text |-> "", code |-> 0]

\* A thread that is not in an outbound call.  q is the queue.Queue of
\* _send_and_get_reply, sent whether the request has left, acked whether an
\* ack has been taken from q, got what ended the wait, api the method the
\* thread called.
NoCall == [pc |-> "idle", ticket |-> 0, q |-> <<>>, sent |-> FALSE,
           acked |-> FALSE, got |-> NoMsg, api |-> "get", result |-> NoResult]

InitCommon ==
    /\ chan = [l \in Links |-> <<>>]
    /\ probes = 0
    /\ steps = 0
    /\ call = [c \in Callers |-> NoCall]
    /\ lock = "free"
    /\ hist = [n \in Nodes |-> NoHist]
    /\ obs = Obs("init", "A", Inert("A"), NoLink, 0, NoMsg, Res(0, <<>>, <<>>))

\* Node A (base_priority 50) linked to node B (base_priority 0)
InitPair ==
    /\ scenario = "pair"
    /\ node = [n \in Nodes |->
                 CASE n = "A" -> NewBase(Name("A"), 10, 50, <<1>>)
                   [] n = "B" -> NewBase(Name("B"), 20, 0, <<2>>)
                   [] OTHER -> Inert(n)]
    /\ InitCommon

\* SystemViewComponent.__init__ line 59: the node elects itself
Start(n) ==
    /\ ~node[n].constructed
    /\ LET r == act_as_central(node[n])
       IN /\ node' = [node EXCEPT ![n] = [r.st EXCEPT !.constructed = TRUE]]
          /\ hist' = [hist EXCEPT ![n] = Record(@, r, NoLink, 0, NoMsg)]
          /\ obs' = Obs("act_as_central", n, node[n], NoLink, 0, NoMsg, r)
    /\ UNCHANGED <<chan, probes, steps, call, lock, scenario>>

\* One run of Networker.loop on node n
Loop(n) ==
    /\ node[n].constructed
    /\ probes < (IF scenario = "star" THEN MaxStarProbes ELSE MaxProbes)
    /\ ProbeLinks(node[n]) # {}
    /\ LET r == Networker_loop(node[n])
       IN /\ chan' = [l \in Links |-> chan[l] \o SentOn(r.out, l)]
          /\ hist' = [hist EXCEPT ![n] = Record(@, r, NoLink, 0, NoMsg)]
          /\ obs' = Obs("loop", n, node[n], NoLink, 0, NoMsg, r)
    /\ probes' = probes + 1
    /\ UNCHANGED <<node, steps, call, lock, scenario>>

\* The peer of link l handles the oldest message sent on l
Deliver(l) ==
    /\ chan[l] # <<>>
    /\ LET n == Owner(Peer(l))
           m == Head(chan[l])
           r == handle_message(node[n], Peer(l), m.to, m.msg)
       IN /\ node[n].constructed
          /\ node' = [node EXCEPT ![n] = r.st]
          /\ chan' = [k \in Links |->
                        (IF k = l THEN Tail(chan[k]) ELSE chan[k]) \o SentOn(r.out, k)]
          /\ hist' = [hist EXCEPT ![n] = Record(@, r, Peer(l), m.to, m.msg)]
          /\ obs' = Obs("handle_message", n, node[n], Peer(l), m.to, m.msg, r)
    /\ UNCHANGED <<probes, steps, call, lock, scenario>>

NextNet ==
    \/ \E n \in Nodes : Start(n)
    \/ \E n \in Nodes : Loop(n)
    \/ \E l \in Links : Deliver(l)

SpecPair == InitPair /\ [][NextNet]_vars

\* Two linked nodes with equal declared priority and serials 10 < 20:
\* either two unnetworked nodes (priority 0) or two nodes that each elected
\* themselves (base_priority 45, the priority of the "view" component)
InitTie ==
    /\ scenario = "tie"
    /\ \E p \in {0, 45} :
         node = [n \in Nodes |->
                   CASE n = "A" -> NewBase(Name("A"), 10, p, <<1>>)
                     [] n = "B" -> NewBase(Name("B"), 20, p, <<2>>)
                     [] OTHER -> Inert(n)]
    /\ InitCommon

SpecTie == InitTie /\ [][NextNet]_vars

\* A (base_priority 50) with the neighbours B and M; D behind M
InitStar ==
    /\ scenario = "star"
    /\ node = [n \in Nodes |->
                 CASE n = "A" -> NewBase(Name("A"), 10, 50, <<1, 3>>)
                   [] n = "B" -> NewBase(Name("B"), 20, 0, <<2>>)
                   [] n = "M" -> NewBase(Name("M"), 30, 0, <<4, 5>>)
                   [] n = "D" -> NewBase(Name("D"), 40, 0, <<6>>)]
    /\ InitCommon

SpecStar == InitStar /\ [][NextNet]_vars

\* Two nodes that each elected themselves (A: 50, D: 45), joined through M
InitLine ==
    /\ scenario = "line"
    /\ node = [n \in Nodes |->
                 CASE n = "A" -> NewBase(Name("A"), 10, 50, <<3>>)
                   [] n = "M" -> NewBase(Name("M"), 30, 0, <<4, 5>>)
                   [] n = "D" -> NewBase(Name("D"), 40, 45, <<6>>)
                   [] OTHER -> Inert(n)]
    /\ InitCommon

SpecLine == InitLine /\ [][NextNet]_vars

\* Nothing is in flight and no Networker has anything to announce
Settled ==
    /\ \A l \in Links : chan[l] = <<>>
    /\ \A n \in Nodes : node[n].constructed /\ ProbeLinks(node[n]) = {}

---------------------------------------------------------------------------
\* One node and whatever its neighbours may send it: node M with two links,
\* plain (base_priority 0) or self-elected (base_priority 50).  What M sends
\* is recorded in obs and goes nowhere.

InitNode ==
    /\ scenario = "node"
    /\ \E p \in {0, 50} :
         node = [n \in Nodes |->
                   IF n = "M" THEN NewBase(Name("M"), 30, p, <<4, 5>>) ELSE Inert(n)]
    /\ InitCommon

EnvCinfo ==
    {Msg("cinfo", id, prio, 40, Name("D"), 0, 0, SSP_VERSION, SSP_MAGIC_BYTE, 0) :
        id \in {0, 2}, prio \in {0, 60}}

EnvNewId ==
    {NewId(id, tk, prio, EmptyName) : id \in {2, 3}, tk \in {0, 1, 2}, prio \in {0, 61}}

\* Destinations of application messages: invalid, central, regular ids, and
\* object 1 of component 2 (128 + 2)
EnvTo == {0, 1, 2, 3, 130}

EnvInputs ==
    {[to |-> SSP_LINK_ID, msg |-> m] : m \in EnvCinfo \cup EnvNewId}
      \cup {[to |-> to, msg |-> AppMsg("call", 7, 3)] : to \in EnvTo}

\* A neighbour's message arrives on link l of node n
EnvDeliver(n, l) ==
    /\ node[n].constructed
    /\ steps < MaxEnvSteps
    /\ \E i \in EnvInputs :
         LET r == handle_message(node[n], l, i.to, i.msg)
         IN /\ node' = [node EXCEPT ![n] = r.st]
            /\ hist' = [hist EXCEPT ![n] = Record(@, r, l, i.to, i.msg)]
            /\ obs' = Obs("handle_message", n, node[n], l, i.to, i.msg, r)
    /\ steps' = steps + 1
    /\ UNCHANGED <<chan, probes, call, lock, scenario>>

\* The application sends a message of its own: ComponentBase.send
LocalSend(n) ==
    /\ node[n].constructed
    /\ steps < MaxEnvSteps
    /\ \E to \in EnvTo \ {0} :
         LET m == AppMsg("call", 7, node[n].componentId)
             r == send(node[n], to, m)
         IN /\ node' = [node EXCEPT ![n] = r.st]
            /\ hist' = [hist EXCEPT ![n] = Record(@, r, NoLink, 0, NoMsg)]
            /\ obs' = Obs("send", n, node[n], NoLink, to, m, r)
    /\ steps' = steps + 1
    /\ UNCHANGED <<chan, probes, call, lock, scenario>>

\* ComponentBase.forget_network, called on its own
ForgetNetwork(n) ==
    /\ node[n].constructed
    /\ steps < MaxEnvSteps
    /\ LET r == forget_network(node[n])
       IN /\ node' = [node EXCEPT ![n] = r.st]
          /\ hist' = [hist EXCEPT ![n] = Record(@, r, NoLink, 0, NoMsg)]
          /\ obs' = Obs("forget_network", n, node[n], NoLink, 0, NoMsg, r)
    /\ steps' = steps + 1
    /\ UNCHANGED <<chan, probes, call, lock, scenario>>

NextNode ==
    \/ Start("M")
    \/ \E l \in {4, 5} : EnvDeliver("M", l)
    \/ LocalSend("M")
    \/ ForgetNetwork("M")

SpecNode == InitNode /\ [][NextNode]_vars

---------------------------------------------------------------------------
\* The ticket table of one node (A), used by several calling threads.
\* make_ticket_with_callback runs under the node's lock; its steps are the
\* scan for a free number (lines 143-149), the test (150-151) and the
\* registration (152-153).

TicketWrap == 250     \* if self._last_ticket >= 250
TicketRange == 250    \* for i in range(250)

\* Variant of the lock that lets every thread in
LockFree_always(l, c) == TRUE

\* raise Exception("All tickets are occupied"), as the caller of get() or
\* call() sees it
ticket_exhausted ==
    [case |-> "exhausted", exc |-> "Exception",
     text |-> "All tickets are occupied", code |-> 0]

\* with self._lock: a thread enters when no other thread holds the lock
LockFree(l, c) == l = "free" \/ l = c

\* The counter after k more passes of the loop body (lines 144-147): it
\* steps through 1..250 and wraps from 250 to 1
ticket_after(last, k) == ((last + k - 1) % TicketWrap) + 1

\* The loop of lines 143-149, entered with i passes done: the counter stops
\* at the first number not in reply_callbacks, or after the last pass
scan_ticket(last, callbacks, i) ==
    LET free == {k \in 1..(TicketRange - i) : ~Has(callbacks, ticket_after(last, k))}
    IN IF free # {} THEN ticket_after(last, Min(free))
       ELSE IF i = TicketRange THEN last
       ELSE ticket_after(last, TicketRange - i)

\* Variant of remove_ticket that leaves the table as it is
remove_ticket_kept(st, ticket) == st

\* remove_ticket
remove_ticket(st, ticket) ==
    IF ~Has(st.reply_callbacks, ticket) THEN st
    ELSE [st EXCEPT !.reply_callbacks =
                       [t \in (DOMAIN @) \ {ticket} |-> @[t]]]

\* The table starts empty, with the counter fresh or close to wrapping
\* (after 248 calls that have all ended).
InitTicket ==
    /\ scenario = "ticket"
    /\ \E last \in {0, TicketWrap - 2} :
         node = [n \in Nodes |->
                   IF n = "A" THEN [Inert(n) EXCEPT !.last_ticket = last]
                   ELSE Inert(n)]
    /\ InitCommon

T == "A"

Acquire(c) ==
    /\ call[c].pc = "idle"
    /\ steps < (IF scenario = "call" THEN MaxCalls ELSE MaxAllocs)
    /\ LockFree(lock, c)
    /\ lock' = c
    /\ call' = [call EXCEPT ![c].pc = "scan"]
    /\ steps' = steps + 1
    /\ obs' = Obs("acquire", T, node[T], NoLink, 0, NoMsg, Res(0, <<>>, <<>>))
    /\ UNCHANGED <<node, chan, probes, hist, scenario>>

Scan(c) ==
    /\ call[c].pc = "scan"
    /\ node' = [node EXCEPT ![T].last_ticket =
                   scan_ticket(@, node[T].reply_callbacks, 0)]
    /\ call' = [call EXCEPT ![c].pc = "check"]
    /\ obs' = Obs("scan", T, node[T], NoLink, 0, NoMsg, Res(0, <<>>, <<>>))
    /\ UNCHANGED <<chan, probes, steps, lock, hist, scenario>>

\* if self._last_ticket in self.reply_callbacks: raise
Check(c) ==
    /\ call[c].pc = "check"
    /\ IF Has(node[T].reply_callbacks, node[T].last_ticket)
       THEN /\ call' = [call EXCEPT ![c].pc = "failed",
                                     ![c].result = ticket_exhausted]
            /\ lock' = IF lock = c THEN "free" ELSE lock
       ELSE /\ call' = [call EXCEPT ![c].pc = "assign"]
            /\ lock' = lock
    /\ obs' = Obs("check", T, node[T], NoLink, 0, NoMsg, Res(0, <<>>, <<>>))
    /\ UNCHANGED <<node, chan, probes, steps, hist, scenario>>

\* self.reply_callbacks[self._last_ticket] = callback; return self._last_ticket
Assign(c) ==
    /\ call[c].pc = "assign"
    /\ node' = [node EXCEPT ![T].reply_callbacks = Put(@, node[T].last_ticket, c)]
    /\ call' = [call EXCEPT ![c].pc = "waiting", ![c].ticket = node[T].last_ticket]
    /\ lock' = IF lock = c THEN "free" ELSE lock
    /\ obs' = Obs("make_ticket", T, node[T], NoLink, node[T].last_ticket, NoMsg,
                  Res(0, <<>>, <<>>))
    /\ UNCHANGED <<chan, probes, steps, hist, scenario>>

\* The call ends and frees its ticket: remove_ticket, under the lock
Remove(c) ==
    /\ call[c].pc = "waiting"
    /\ LockFree(lock, c)
    /\ node' = [node EXCEPT ![T] = remove_ticket(@, call[c].ticket)]
    /\ call' = [call EXCEPT ![c] = NoCall]
    /\ obs' = Obs("remove_ticket", T, node[T], NoLink, call[c].ticket, NoMsg,
                  Res(0, <<>>, <<>>))
    /\ UNCHANGED <<chan, probes, steps, lock, hist, scenario>>

NextTicket ==
    \E c \in Callers : Acquire(c) \/ Scan(c) \/ Check(c) \/ Assign(c) \/ Remove(c)

SpecTicket == InitTicket /\ [][NextTicket]_vars

---------------------------------------------------------------------------
\* Outbound calls (core/remoteobject.py): ComponentProxy.get and
\* ComponentProxy.call on node A, each through _send_and_get_reply.  A is a
\* networked child (id 2) of the central (id 1) behind its link 1; the
\* central's answers reach A through handle_message.

\* Variant of the wait loop that takes an ack for the answer
wait_step_ack_ends(kind) == "break"

\* The wait loop of _send_and_get_reply, lines 91-105: what the loop does
\* with what q.get gave it ("empty" for queue.Empty)
wait_step(kind) == IF kind = "ack" THEN "continue" ELSE "break"

\* Variant of _handle_reply without the test for a nack
_handle_reply_no_nack(reply) ==
    IF reply.a = "none"
    THEN [exc |-> "TimeoutException",
          text |-> "Timeout waiting for reply from remote object", code |-> 0]
    ELSE [exc |-> "", text |-> "", code |-> 0]

\* ComponentProxy._handle_reply, lines 118-136; reply is NoMsg for None, and
\* a nack carries its reason code in the field id
_handle_reply(reply) ==
    IF reply.a = "none"
    THEN [exc |-> "TimeoutException",
          text |-> "Timeout waiting for reply from remote object", code |-> 0]
    ELSE IF reply.a = "nack"
    THEN IF reply.id = 0
         THEN [exc |-> "NackException", text |-> "Rejected by component", code |-> 0]
         ELSE [exc |-> "NackException",
               text |-> "Rejected by component (reason)", code |-> reply.id]
    ELSE [exc |-> "", text |-> "", code |-> 0]

\* What get() (lines 144-155) and call() with retries = 0 (lines 157-170)
\* make of the value of _send_and_get_reply
rpc_outcome(api, reply) ==
    IF api = "call" /\ reply.a = "none"
    THEN [exc |-> "Exception", text |-> "No reply", code |-> 0]
    ELSE _handle_reply(reply)

\* Node A after it accepted the newid {id 2, parent 1, priority 51} on link 1
CallerNode ==
    _handle_link_newid(NewBase(Name("A"), 10, 0, <<1>>), 1,
                       NewId(2, SSP_CENTRAL_ID, 51, EmptyName)).st

\* The ticket table when the calls modelled start: empty (fresh, or with the
\* counter about to wrap), or held by calls of other threads ("bg") that
\* stay outstanding: all but the last number, or every number.
InitCall ==
    /\ scenario = "call"
    /\ \E t \in {[last |-> 0, held |-> {}],
                 [last |-> TicketWrap - 2, held |-> {}],
                 [last |-> TicketWrap - 1, held |-> 1..(TicketWrap - 1)],
                 [last |-> TicketWrap, held |-> 1..TicketWrap]} :
         node = [n \in Nodes |->
                   IF n = T
                   THEN [CallerNode EXCEPT !.last_ticket = t.last,
                                           !.reply_callbacks = [k \in t.held |-> "bg"]]
                   ELSE Inert(n)]
    /\ InitCommon

\* A thread calls get() or call() on the proxy of component 1 and enters
\* make_ticket_with_callback
Begin(c) ==
    /\ scenario = "call"
    /\ \E api \in {"get", "call"} :
         /\ Acquire(c)!1 /\ Acquire(c)!2 /\ Acquire(c)!3
         /\ lock' = c
         /\ call' = [call EXCEPT ![c] = [NoCall EXCEPT !.pc = "scan", !.api = api,
                                                       !.result = call[c].result]]
    /\ steps' = steps + 1
    /\ obs' = Obs("acquire", T, node[T], NoLink, 0, NoMsg, Res(0, <<>>, <<>>))
    /\ UNCHANGED <<node, chan, probes, hist, scenario>>

\* lines 87-89: the request leaves with the ticket and the sender's id
SendRequest(c) ==
    /\ call[c].pc = "waiting" /\ ~call[c].sent
    /\ LET m == AppMsg(call[c].api, call[c].ticket, node[T].componentId)
           r == send(node[T], SSP_CENTRAL_ID, m)
       IN /\ node' = [node EXCEPT ![T] = r.st]
          /\ obs' = Obs("send", T, node[T], NoLink, SSP_CENTRAL_ID, m, r)
    /\ call' = [call EXCEPT ![c].sent = TRUE]
    /\ UNCHANGED <<chan, probes, steps, lock, hist, scenario>>

\* The tickets an inbound reply, ack or nack may carry: none, a number of
\* the other threads, or the number a modelled thread holds or held
EnvTickets == {NoneId, 5} \cup {call[c].ticket : c \in Callers}

\* The threads whose on_reply callback a handler run invoked, by the events
\* of the run
Called(pre, evts) ==
    {pre.reply_callbacks[evts[i].n] :
        i \in {j \in 1..Len(evts) : evts[j].k = "reply_callback"}}

\* A reply, ack or nack arrives on link 1, addressed to the node or to the
\* link; the callback of its ticket puts it on the queue of the call
EnvControl ==
    /\ probes < MaxReplies
    /\ probes' = probes + 1
    /\ \E a \in {"reply", "ack", "nack"}, tk \in EnvTickets,
          to \in {node[T].componentId, SSP_LINK_ID}, code \in {0, 3} :
         LET m == [AppMsg(a, tk, SSP_CENTRAL_ID) EXCEPT !.id = code]
             r == handle_message(node[T], 1, to, m)
             who == Called(node[T], r.evts)
         IN /\ a # "nack" => code = 0
            /\ \A c \in who \cap Callers : Len(call[c].q) < MaxQueue
            /\ node' = [node EXCEPT ![T] = r.st]
            /\ call' = [c \in Callers |->
                          IF c \in who THEN [call[c] EXCEPT !.q = Append(@, m)]
                          ELSE call[c]]
            /\ obs' = Obs("handle_message", T, node[T], 1, to, m, r)
    /\ UNCHANGED <<chan, steps, lock, hist, scenario>>

\* The peer is still busy with the request of c and says so once more,
\* before the timeout of c runs out
AckAgain(c) ==
    /\ call[c].pc = "waiting" /\ call[c].sent /\ call[c].acked
    /\ call[c].q = <<>>
    /\ LET m == AppMsg("ack", call[c].ticket, SSP_CENTRAL_ID)
           r == handle_message(node[T], 1, node[T].componentId, m)
           who == Called(node[T], r.evts)
       IN /\ node' = [node EXCEPT ![T] = r.st]
          /\ call' = [d \in Callers |->
                        IF d \in who THEN [call[d] EXCEPT !.q = Append(@, m)]
                        ELSE call[d]]
          /\ obs' = Obs("handle_message", T, node[T], 1, node[T].componentId, m, r)
    /\ UNCHANGED <<chan, probes, steps, lock, hist, scenario>>

\* q.get returns a message: an ack is passed over, a reply or nack ends the
\* wait
Receive(c) ==
    /\ call[c].pc = "waiting" /\ call[c].sent
    /\ call[c].q # <<>>
    /\ LET m == Head(call[c].q)
       IN /\ call' = [call EXCEPT ![c] =
                IF wait_step(m.a) = "continue"
                THEN [@ EXCEPT !.q = Tail(@), !.acked = TRUE]
                ELSE [@ EXCEPT !.q = Tail(@), !.pc = "got", !.got = m]]
          /\ obs' = Obs("receive", T, node[T], NoLink, call[c].ticket, m,
                        Res(0, <<>>, <<>>))
    /\ UNCHANGED <<node, chan, probes, steps, lock, hist, scenario>>

\* q.get raises queue.Empty: nothing arrived for <timeout> seconds
Timeout(c) ==
    /\ call[c].pc = "waiting" /\ call[c].sent
    /\ call[c].q = <<>>
    /\ call' = [call EXCEPT ![c] =
                   IF wait_step("empty") = "continue" THEN @
                   ELSE [@ EXCEPT !.pc = "got", !.got = NoMsg]]
    /\ obs' = Obs("timeout", T, node[T], NoLink, call[c].ticket, NoMsg,
                  Res(0, <<>>, <<>>))
    /\ UNCHANGED <<node, chan, probes, steps, lock, hist, scenario>>

\* lines 115-116 and the caller's _handle_reply: the ticket is removed and
\* get() or call() returns or raises
Finish(c) ==
    /\ call[c].pc = "got"
    /\ LockFree(lock, c)
    /\ node' = [node EXCEPT ![T] = remove_ticket(@, call[c].ticket)]
    /\ LET o == rpc_outcome(call[c].api, call[c].got)
       IN call' = [call EXCEPT ![c] =
                     [NoCall EXCEPT !.ticket = call[c].ticket, !.result =
                         [case |-> IF call[c].got.a = "none" THEN "timeout"
                                   ELSE call[c].got.a,
                          exc |-> o.exc, text |-> o.text, code |-> o.code]]]
    /\ obs' = Obs("return", T, node[T], NoLink, call[c].ticket, call[c].got,
                  Res(0, <<>>, <<>>))
    /\ UNCHANGED <<chan, probes, steps, lock, hist, scenario>>

\* One thread makes the calls modelled; the calls of the other threads are
\* those that hold the table in InitCall
CallThreads == {"t1"}

NextCall ==
    \/ \E c \in CallThreads :
          \/ Begin(c) \/ Scan(c) \/ Check(c) \/ Assign(c) \/ SendRequest(c)
          \/ Receive(c) \/ Timeout(c) \/ Finish(c)
    \/ EnvControl

SpecCall == InitCall /\ [][NextCall]_vars

\* The same with a peer that may go on sending acks
NextStream == NextCall \/ \E c \in CallThreads : AckAgain(c)

\* Every thread keeps running; which messages arrive, and when, is up to
\* the peer
FairStream ==
    /\ InitCall /\ [][NextStream]_vars
    /\ \A c \in CallThreads :
          /\ WF_vars(Scan(c)) /\ WF_vars(Check(c)) /\ WF_vars(Assign(c))
          /\ WF_vars(SendRequest(c)) /\ WF_vars(Receive(c))
          /\ WF_vars(Timeout(c)) /\ WF_vars(Finish(c))

---------------------------------------------------------------------------
\* Properties of routing, checked on SpecNode

\* The message of the last step was handed to the routing part of
\* handle_message (lines 400-424): it is addressed neither to the link nor
\* to the node itself
Routed ==
    /\ obs.op = "handle_message"
    /\ obs.to # SSP_INVALID_COMPONENT_ID
    /\ obs.to # SSP_LINK_ID
    /\ ~(obs.to = obs.pre.componentId /\ obs.pre.componentId # SSP_INVALID_COMPONENT_ID)

\* The link the message of the last step is to leave on: the routing-table
\* entry, or else the parent link (NoLink when there is neither)
NextHop ==
    LET componentId == obs.to % SSP_COMPONENT_MODULUS
    IN IF Has(obs.pre.routes, componentId) THEN obs.pre.routes[componentId]
       ELSE IF ParentLinkRaises(obs.pre) THEN NoLink
       ELSE parent_link(obs.pre)

DropReported ==
    \/ HasEvt(obs.evts, "err:Dropping msg that would be sent back on same link")
    \/ HasEvt(obs.evts, "err:Dropping msg with unknown recipient")

Reported ==
    \/ DropReported
    \/ HasEvt(obs.evts, "err:Dropping msg due to no route")
    \/ HasEvt(obs.evts, "err:invalid to")
    \/ HasEvt(obs.evts, "err:no route")

\* C5: a message routed through a node is never sent out on the link it
\* arrived on; when the next hop (routing-table entry, or else the parent
\* link) is the inbound link, nothing is sent and an error is reported.
C5_NoSendBack ==
    Routed =>
        /\ \A i \in 1..Len(obs.out) : obs.out[i].link # obs.from_link
        /\ NextHop = obs.from_link =>
               obs.out = <<>> /\ DropReported /\ ~obs.crashed

\* The parent link is the inbound link of a message for an unknown component
C5_Witness ==
    /\ Routed
    /\ ~Has(obs.pre.routes, obs.to % SSP_COMPONENT_MODULUS)
    /\ NextHop = obs.from_link
    /\ obs.out = <<>>
    /\ HasEvt(obs.evts, "err:Dropping msg with unknown recipient")

C7_ForgetResets ==
    obs.op = "forget_network" =>
        /\ node[obs.node].componentId = SSP_INVALID_COMPONENT_ID
        /\ node[obs.node].routes = EmptyDict

\* C9: a node configured with base_priority > 0 elects itself: it takes id 1,
\* priority equal to base_priority and no parent, holds the directory, and
\* on_networked is fired; no such node is up without having done so.
C9_SelfElects ==
    /\ obs.op = "act_as_central" =>
          /\ ~obs.crashed
          /\ node[obs.node].componentId = SSP_CENTRAL_ID
          /\ node[obs.node].priority = node[obs.node].base_priority
          /\ node[obs.node].parent = 0
          /\ node[obs.node].central # NoCentral
          /\ HasEvt(obs.evts, "on_networked")
    /\ \A n \in Nodes :
          (node[n].constructed /\ node[n].base_priority > 0) => hist[n].networked

C9_Witness ==
    /\ obs.op = "act_as_central"
    /\ obs.pre.base_priority > 0
    /\ obs.pre.componentId = SSP_INVALID_COMPONENT_ID
    /\ node[obs.node].componentId = SSP_CENTRAL_ID

---------------------------------------------------------------------------
\* Properties of the election, checked on the networks above

Quiet == \A l \in Links : chan[l] = <<>>

Directory(n) == node[n].central
Acting(n) == node[n].central # NoCentral

\* C2: no two distinct nodes of one network hold the same non-zero
\* ComponentId at the same time.
C2_UniqueIds ==
    \A m, n \in Nodes :
        (m # n /\ node[m].componentId # SSP_INVALID_COMPONENT_ID)
            => node[m].componentId # node[n].componentId

\* C3: once message exchange in a connected network has settled, at most one
\* node is acting as Central (holds id 1 and a directory it allocates from).
C3_SingleCentral ==
    Settled => Cardinality({n \in Nodes : is_central(node[n]) /\ Acting(n)}) <= 1

\* C4: two linked nodes A and B with serials 10 < 20 and equal
\* declared priority.  Whatever the order of their announcements, A keeps
\* its priority (it never becomes a child, never drops below its declared
\* priority and keeps its role), and B yields: every announcement of A that
\* B handles makes B give way with a priority below the announced one, and
\* once the exchange has settled B is not acting as central and has A as
\* its parent.
C4_LowerSerialRetains ==
    /\ ~hist["A"].yielded
    /\ node["A"].parent = 0
    /\ node["A"].constructed =>
          /\ node["A"].priority >= node["A"].base_priority
          /\ Acting("A") <=> node["A"].base_priority > 0
    /\ (obs.op = "handle_message" /\ obs.node = "B" /\ obs.to = SSP_LINK_ID
            /\ obs.msg.a = "cinfo")
           => /\ HasEvt(obs.evts, "linkEvt:Will be child")
              /\ node["B"].priority < obs.msg.prio
    /\ Settled => /\ ~Acting("B")
                  /\ node["B"].parent = node["A"].componentId
                  /\ node["B"].priority <= node["A"].priority

\* B gives way on A's announcement after A has already answered B's
C4_Witness ==
    /\ scenario = "tie"
    /\ obs.op = "handle_message" /\ obs.node = "B" /\ obs.msg.a = "cinfo"
    /\ obs.pre.priority = obs.msg.prio
    /\ HasEvt(obs.evts, "linkEvt:Will be child")
    /\ Len(Directory("A")) = 2

\* The outcome for A (base_priority 50) linked to B (base_priority 0)
PairOutcome ==
    /\ node["A"].componentId = SSP_CENTRAL_ID
    /\ Acting("A")
    /\ node["B"].componentId # SSP_INVALID_COMPONENT_ID
    /\ HasKey(Directory("A"), "name", Name("A"))
    /\ HasKey(Directory("A"), "name", Name("B"))

\* A's constructor, every Networker and every link keep running
FairPair ==
    /\ SpecPair
    /\ \A n \in {"A", "B"} : WF_vars(Start(n)) /\ WF_vars(Loop(n))
    /\ \A l \in {1, 2} : WF_vars(Deliver(l))

\* C8: with A (base_priority 50) linked to B (base_priority 0) the system
\* eventually settles, for good, in a state where A has id 1 and is Central,
\* B has a non-zero id, and A's directory holds an entry under A's name and
\* one under B's name.
C8_PairSettles == <>[](Settled /\ PairOutcome)

C8_Witness ==
    /\ scenario = "pair"
    /\ Settled
    /\ PairOutcome
    /\ node["B"].parent = node["A"].componentId

\* C10: when a networked non-central node has passed the cinfo received on
\* its link L on to the central, the newid the central allocates is handed
\* to the neighbour over link L: once nothing is in flight any more, every
\* neighbour asked for has received a newid on its end of L.
C10_NewIdReachesNeighbour ==
    Quiet =>
        \A n \in Nodes : \A l \in hist[n].asked_for :
            Peer(l) \in hist[Owner(Peer(l))].newid_on

---------------------------------------------------------------------------
\* The ticket table, checked on SpecTicket

Outstanding(c) == call[c].pc = "waiting"

\* C1: make_ticket_with_callback never returns a ticket that is still
\* registered for an outstanding call on the same node, under any
\* interleaving of allocations and releases by concurrent threads: the ticket
\* returned was free, outstanding calls hold different tickets, and each is
\* registered to its own call.
C1_TicketNotReused ==
    /\ obs.op = "make_ticket" => ~Has(obs.pre.reply_callbacks, obs.to)
    /\ \A c, d \in Callers :
          (c # d /\ Outstanding(c) /\ Outstanding(d))
              => call[c].ticket # call[d].ticket
    /\ \A c \in Callers :
          Outstanding(c) => /\ Has(node[T].reply_callbacks, call[c].ticket)
                            /\ node[T].reply_callbacks[call[c].ticket] = c

\* Two calls outstanding at once, one of them with the ticket handed out
\* after the counter wrapped
C1_Witness ==
    /\ obs.op = "make_ticket"
    /\ obs.to = 1
    /\ \E c, d \in Callers :
          /\ Outstanding(c) /\ call[c].ticket = 1
          /\ Outstanding(d) /\ call[d].ticket = TicketWrap

---------------------------------------------------------------------------
\* Properties of outbound calls, checked on SpecCall

Registered(c) ==
    /\ Has(node[T].reply_callbacks, call[c].ticket)
    /\ node[T].reply_callbacks[call[c].ticket] = c

\* C11: an ack for an outstanding ticket leaves the ticket registered: the
\* call that took the ack from its queue is still waiting with its ticket
\* registered to it, and a reply or nack that arrives with that ticket
\* afterwards is put on the queue of the same call.
C11_AckKeepsTicket ==
    /\ \A c \in CallThreads :
          (call[c].pc = "waiting" /\ call[c].acked) => Registered(c)
    /\ (obs.op = "receive" /\ obs.msg.a = "ack") =>
          \E c \in CallThreads :
              call[c].ticket = obs.to /\ call[c].pc = "waiting" /\ Registered(c)
    /\ \A c \in CallThreads :
          (/\ obs.op = "handle_message" /\ obs.msg.a \in {"reply", "nack"}
           /\ call[c].pc = "waiting" /\ call[c].acked
           /\ obs.msg.tk = call[c].ticket)
              => /\ Called(obs.pre, obs.evts) = {c}
                 /\ call[c].q # <<>>
                 /\ call[c].q[Len(call[c].q)] = obs.msg

\* The reply arrives after the call has taken an ack
C11_Witness ==
    /\ obs.op = "handle_message" /\ obs.msg.a = "reply"
    /\ call["t1"].pc = "waiting" /\ call["t1"].acked
    /\ obs.msg.tk = call["t1"].ticket
    /\ call["t1"].q = <<obs.msg>>

C13_BadTicketReported ==
    (/\ obs.op = "handle_message" /\ IsReplyCmd(obs.msg.a)
     /\ (obs.msg.tk = NoneId \/ ~Has(obs.pre.reply_callbacks, obs.msg.tk)))
        => /\ ~obs.crashed
           /\ IF obs.msg.tk = NoneId THEN HasEvt(obs.evts, "err:no ticket")
              ELSE HasEvt(obs.evts, "err:unknown ticket")
           /\ ~HasEvt(obs.evts, "reply_callback")
           /\ node[T].reply_callbacks = obs.pre.reply_callbacks

\* A nack for a ticket that is not outstanding, addressed to the node
C13_Witness ==
    /\ obs.op = "handle_message" /\ obs.msg.a = "nack"
    /\ obs.to = obs.pre.componentId
    /\ obs.msg.tk # NoneId /\ ~Has(obs.pre.reply_callbacks, obs.msg.tk)
    /\ HasEvt(obs.evts, "err:unknown ticket")

\* C14: every ticket allocated for an outgoing request lies in 1..249.
C14_TicketRange ==
    /\ obs.op = "make_ticket" => obs.to \in 1..249
    /\ \A c \in Callers : Outstanding(c) => call[c].ticket \in 1..249

\* C15: a request for a ticket made while 249 tickets are outstanding raises
\* an error and returns no ticket.
C15_ExhaustedAt249 ==
    obs.op = "make_ticket" => Cardinality(DOMAIN obs.pre.reply_callbacks) # 249

InCall(c) == call[c].pc \notin {"idle", "failed"}

\* C16: every outbound call returns control to its caller (after a reply,
\* after a nack, or after the timeout).
C16_CallReturns == \A c \in CallThreads : InCall(c) ~> ~InCall(c)

\* What the caller of get() or call() can tell from the exception raised
CaseOf(r) ==
    IF r.exc = "NackException" THEN "nack"
    ELSE IF r.exc = "TimeoutException" \/ (r.exc = "Exception" /\ r.text = "No reply")
    THEN "timeout"
    ELSE IF r.exc = "Exception" /\ r.text = "All tickets are occupied"
    THEN "exhausted"
    ELSE "reply"

---------------------------------------------------------------------------
\* Subscriptions (ComponentBase.subscribe / unsubscribe).  obj_to_subscribers
\* maps a remote object to a map from symbol to the set of local callbacks.

MaxSubs == 2

Symbols == {"x", "y"}
Listeners == {"f", "g"}
ObjectIds == {SSP_CENTRAL_ID, 3}

\* {'a': 'sub' / 'unsub', 'sym': ..., 'from': componentId}
SubMsg(a, sym, from) == [a |-> a, sym |-> sym, from |-> from]

\* symbols_to_callbacks: the items of the dict in the order of iteration.
\* Every item names at least one callback, as the maps built by
\* add_subscriber and remove_subscriber do; the maps enumerated have up to
\* two symbols, and the two items of a map carry the same callbacks.
Item(symbol, callbacks) == [symbol |-> symbol, callbacks |-> callbacks]

CallbackSets == (SUBSET Listeners) \ {{}}

SymbolMaps ==
    {<<>>}
    \cup {<<Item(s, cb)>> : s \in Symbols, cb \in CallbackSets}
    \cup {<<Item(p[1], p[2]), Item(p[3], p[4])>> :
            p \in {q \in Symbols \X CallbackSets \X Symbols \X CallbackSets :
                      q[1] # q[3] /\ q[2] = q[4]}}

ListenersOf(st, objectId, symbol) ==
    IF Has(st.obj_to_subscribers, objectId)
       /\ Has(st.obj_to_subscribers[objectId], symbol)
    THEN st.obj_to_subscribers[objectId][symbol]
    ELSE {}

\* Variant of the loop body that announces every symbol of the call
subscribe_item_always(subscriptions, new, item) ==
    LET s1 == IF ~Has(subscriptions, item.symbol)
              THEN Put(subscriptions, item.symbol, {}) ELSE subscriptions
    IN [subscriptions |-> Put(s1, item.symbol, s1[item.symbol] \cup item.callbacks),
        new |-> Append(new, item.symbol)]

\* subscribe, lines 176-179: the body of the loop for one item
subscribe_item(subscriptions, new, item) ==
    LET fresh == ~Has(subscriptions, item.symbol)
        s1 == IF fresh THEN Put(subscriptions, item.symbol, {}) ELSE subscriptions
    IN [subscriptions |-> Put(s1, item.symbol, s1[item.symbol] \cup item.callbacks),
        new |-> IF fresh THEN Append(new, item.symbol) ELSE new]

RECURSIVE subscribe_loop(_, _, _)
subscribe_loop(subscriptions, new, items) ==
    IF items = <<>> THEN [subscriptions |-> subscriptions, new |-> new]
    ELSE LET r == subscribe_item(subscriptions, new, Head(items))
         IN subscribe_loop(r.subscriptions, r.new, Tail(items))

\* ComponentBase.subscribe, run from entry to return
subscribe(st, objectId, symbols_to_callbacks) ==
    IF Len(symbols_to_callbacks) = 0 THEN Res(st, <<>>, <<>>)
    ELSE LET subscriptions == IF Has(st.obj_to_subscribers, objectId)
                              THEN st.obj_to_subscribers[objectId] ELSE EmptyDict
             r == subscribe_loop(subscriptions, <<>>, symbols_to_callbacks)
             st1 == [st EXCEPT !.obj_to_subscribers = Put(@, objectId, r.subscriptions)]
         IN IF r.new # <<>>
            THEN send(st1, objectId, SubMsg("sub", r.new, st.componentId))
            ELSE Res(st1, <<>>, <<>>)

\* unsubscribe, lines 196-203.  A symbol that has no entry ends the whole
\* call (returned), whatever the loop has removed before.  gone is
\* unsubscribe_symbols.
RECURSIVE unsubscribe_loop(_, _, _)
unsubscribe_loop(subscriptions, gone, items) ==
    IF items = <<>>
    THEN [subscriptions |-> subscriptions, gone |-> gone, returned |-> FALSE]
    ELSE LET item == Head(items)
         IN IF ~Has(subscriptions, item.symbol)
            THEN [subscriptions |-> subscriptions, gone |-> gone, returned |-> TRUE]
            ELSE LET left == subscriptions[item.symbol] \ item.callbacks
                 IN IF left = {}
                    THEN unsubscribe_loop(Del(subscriptions, item.symbol),
                                          gone \cup {item.symbol}, Tail(items))
                    ELSE unsubscribe_loop(Put(subscriptions, item.symbol, left),
                                          gone, Tail(items))

\* ComponentBase.unsubscribe, run from entry to return.  'sym' is
\* list(unsubscribe_symbols); its order is not modelled.
unsubscribe(st, objectId, symbols_to_callbacks) ==
    IF ~Has(st.obj_to_subscribers, objectId) THEN Res(st, <<>>, <<>>)
    ELSE LET r == unsubscribe_loop(st.obj_to_subscribers[objectId], {},
                                   symbols_to_callbacks)
             st1 == [st EXCEPT !.obj_to_subscribers[objectId] = r.subscriptions]
         IN IF ~r.returned /\ r.gone # {}
            THEN send(st1, objectId, SubMsg("unsub", r.gone, st.componentId))
            ELSE Res(st1, <<>>, <<>>)

\* One thread makes the calls, one after another
InitSub ==
    /\ scenario = "sub"
    /\ node = [n \in Nodes |-> IF n = T THEN CallerNode ELSE Inert(n)]
    /\ InitCommon

SubCall(symbols_to_callbacks) == [a |-> "call", items |-> symbols_to_callbacks]

Subscribe ==
    /\ scenario = "sub"
    /\ \E objectId \in ObjectIds, m \in SymbolMaps :
         LET r == subscribe(node[T], objectId, m)
         IN /\ node' = [node EXCEPT ![T] = r.st]
            /\ obs' = Obs("subscribe", T, node[T], NoLink, objectId, SubCall(m), r)
    /\ UNCHANGED <<chan, probes, steps, call, lock, hist, scenario>>

Unsubscribe ==
    /\ scenario = "sub"
    /\ \E objectId \in ObjectIds, m \in SymbolMaps :
         LET r == unsubscribe(node[T], objectId, m)
         IN /\ node' = [node EXCEPT ![T] = r.st]
            /\ obs' = Obs("unsubscribe", T, node[T], NoLink, objectId, SubCall(m), r)
    /\ UNCHANGED <<chan, probes, steps, call, lock, hist, scenario>>

NextSub == Subscribe \/ Unsubscribe

SpecSub == InitSub /\ [][NextSub]_vars

---------------------------------------------------------------------------
\* subscribe called from several threads.  subscribe takes no lock, so the
\* statements of two calls interleave; a thread is at one of the statements
\* below.  Lines 169-173 (the entry for the object) are taken in one step.

NoSub == [pc |-> "idle", obj |-> 0, items |-> <<>>, new |-> <<>>]

\* {sym: [report_callback] for sym in symbols}, add_subscriber lines 206-207
AddSubscriberMaps ==
    {m \in SymbolMaps : m # <<>> /\ \A i \in 1..Len(m) :
                           m[i].callbacks = m[1].callbacks
                           /\ Cardinality(m[i].callbacks) = 1}

InitRace ==
    /\ scenario = "race"
    /\ node = [n \in Nodes |-> IF n = T THEN CallerNode ELSE Inert(n)]
    /\ chan = [l \in Links |-> <<>>]
    /\ probes = 0
    /\ steps = 0
    /\ call = [c \in Callers |-> NoSub]
    /\ lock = "free"
    /\ hist = [n \in Nodes |-> NoHist]
    /\ obs = Obs("init", "A", Inert("A"), NoLink, 0, NoMsg, Res(0, <<>>, <<>>))

\* lines 169-174
SubEnter(c) ==
    /\ scenario = "race"
    /\ call[c].pc = "idle"
    /\ steps < MaxSubs
    /\ \E objectId \in ObjectIds, m \in AddSubscriberMaps :
         /\ node' = [node EXCEPT ![T].obj_to_subscribers =
                        IF Has(@, objectId) THEN @ ELSE Put(@, objectId, EmptyDict)]
         /\ call' = [call EXCEPT ![c] = [pc |-> "test", obj |-> objectId,
                                        items |-> m, new |-> <<>>]]
         /\ obs' = Obs("enter", T, node[T], NoLink, objectId, SubCall(m),
                       Res(0, <<>>, <<>>))
    /\ steps' = steps + 1
    /\ UNCHANGED <<chan, probes, lock, hist, scenario>>

\* line 175 and line 176: the next item, and `if not symbol in subscriptions`
SubTest(c) ==
    /\ call[c].pc = "test"
    /\ call' = [call EXCEPT ![c].pc =
                  IF call[c].items = <<>> THEN "send"
                  ELSE IF Has(node[T].obj_to_subscribers[call[c].obj],
                              Head(call[c].items).symbol)
                  THEN "update" ELSE "create"]
    /\ obs' = Obs("test", T, node[T], NoLink, call[c].obj, NoMsg, Res(0, <<>>, <<>>))
    /\ UNCHANGED <<node, chan, probes, steps, lock, hist, scenario>>

\* lines 177-178
SubCreate(c) ==
    /\ call[c].pc = "create"
    /\ node' = [node EXCEPT ![T].obj_to_subscribers[call[c].obj] =
                  Put(@, Head(call[c].items).symbol, {})]
    /\ call' = [call EXCEPT ![c].pc = "update",
                            ![c].new = Append(@, Head(call[c].items).symbol)]
    /\ obs' = Obs("create", T, node[T], NoLink, call[c].obj, NoMsg, Res(0, <<>>, <<>>))
    /\ UNCHANGED <<chan, probes, steps, lock, hist, scenario>>

\* line 179
SubUpdate(c) ==
    /\ call[c].pc = "update"
    /\ LET item == Head(call[c].items)
       IN node' = [node EXCEPT ![T].obj_to_subscribers[call[c].obj][item.symbol] =
                     @ \cup item.callbacks]
    /\ call' = [call EXCEPT ![c].pc = "test", ![c].items = Tail(@)]
    /\ obs' = Obs("update", T, node[T], NoLink, call[c].obj, NoMsg, Res(0, <<>>, <<>>))
    /\ UNCHANGED <<chan, probes, steps, lock, hist, scenario>>

\* lines 180-185
SubSend(c) ==
    /\ call[c].pc = "send"
    /\ LET r == IF call[c].new # <<>>
                THEN send(node[T], call[c].obj,
                          SubMsg("sub", call[c].new, node[T].componentId))
                ELSE Res(node[T], <<>>, <<>>)
       IN /\ node' = [node EXCEPT ![T] = r.st]
          /\ chan' = [l \in Links |-> chan[l] \o SentOn(r.out, l)]
          /\ obs' = Obs("subscribe", T, node[T], NoLink, call[c].obj, NoMsg, r)
    /\ call' = [call EXCEPT ![c] = NoSub]
    /\ UNCHANGED <<probes, steps, lock, hist, scenario>>

NextRace ==
    \E c \in Callers :
        SubEnter(c) \/ SubTest(c) \/ SubCreate(c) \/ SubUpdate(c) \/ SubSend(c)

SpecRace == InitRace /\ [][NextRace]_vars

---------------------------------------------------------------------------
\* Properties of subscriptions

\* The symbols for which the last operation sent a message with action a
Announced(a) ==
    UNION {IF obs.out[i].msg.a # a THEN {}
           ELSE IF a = "sub"
           THEN {obs.out[i].msg.sym[j] : j \in 1..Len(obs.out[i].msg.sym)}
           ELSE obs.out[i].msg.sym : i \in 1..Len(obs.out)}

\* C18: when the calls are made one after another, a sub goes out for a
\* (remote object, symbol) pair only in a subscribe call before which the
\* pair had no local listener and after which it has one, and an unsub only
\* in an unsubscribe call before which the pair had a listener and after
\* which it has none.
C18_FirstAndLastOnly ==
    obs.op \in {"subscribe", "unsubscribe"} =>
        /\ \A i \in 1..Len(obs.out) :
              /\ obs.out[i].to = obs.to
              /\ obs.out[i].msg.a = (IF obs.op = "subscribe" THEN "sub" ELSE "unsub")
        /\ \A s \in Announced("sub") :
              /\ ListenersOf(obs.pre, obs.to, s) = {}
              /\ ListenersOf(node[T], obs.to, s) # {}
        /\ \A s \in Announced("unsub") :
              /\ ListenersOf(obs.pre, obs.to, s) # {}
              /\ ListenersOf(node[T], obs.to, s) = {}

\* One subscribe call adds a listener to a pair that has one already and
\* the first listener to another pair: the sub names the second pair only
C18_Witness ==
    /\ obs.op = "subscribe" /\ Len(obs.msg.items) = 2
    /\ ListenersOf(obs.pre, obs.to, "x") # {}
    /\ ListenersOf(obs.pre, obs.to, "y") = {}
    /\ Announced("sub") = {"y"}

\* The number of subs for the pair sent on link l so far
RECURSIVE SubsSent(_, _, _)
SubsSent(sent, objectId, symbol) ==
    IF sent = <<>> THEN 0
    ELSE (IF /\ Head(sent).msg.a = "sub" /\ Head(sent).to = objectId
             /\ \E j \in 1..Len(Head(sent).msg.sym) : Head(sent).msg.sym[j] = symbol
          THEN 1 ELSE 0) + SubsSent(Tail(sent), objectId, symbol)

\* C19: however the subscribe calls of several threads interleave, at most
\* one sub is sent for a (remote object, symbol) pair.
C19_OneSubPerPair ==
    \A objectId \in ObjectIds, s \in Symbols :
        SubsSent(chan[1], objectId, s) <= 1

\* C20: on a cinfo from the neighbour whose priority equals the receiver's
\* own as the tie-break sees it, and whose serial differs: the tie-break
\* leaves the priority of the receiver with the lower serial as it is and
\* lowers that of the receiver with the higher serial by exactly one.  When
\* the handler returns the higher serial holds its priority less one; the
\* lower serial holds its priority, raised by the one that a central adds
\* when it registers the sender.
C20_TieBreak ==
    (/\ obs.op = "handle_message" /\ obs.to = SSP_LINK_ID /\ obs.msg.a = "cinfo"
     /\ obs.msg.ver = SSP_VERSION /\ obs.msg.magicByte = SSP_MAGIC_BYTE
     /\ ~ParentLinkRaises(obs.pre) /\ ~obs.crashed)
    => LET e == tie_entry(obs.pre, obs.from_link)
           after == node[obs.node].priority
       IN (obs.msg.prio = e.priority /\ obs.msg.serial # e.serial) =>
            IF obs.msg.serial < e.serial
            THEN /\ tie_break(e, obs.msg).priority = e.priority - 1
                 /\ after = e.priority - 1
            ELSE /\ tie_break(e, obs.msg).priority = e.priority
                 /\ after = (IF ~is_central(e) THEN e.priority
                             ELSE IF e.priority + 1 < PriorityCap
                             THEN e.priority + 1 ELSE PriorityCap)

\* B (serial 20), acting as central with priority 45, handles the
\* announcement of A (serial 10) with priority 45
C20_Witness ==
    /\ scenario = "tie"
    /\ obs.op = "handle_message" /\ obs.node = "B" /\ obs.msg.a = "cinfo"
    /\ ~obs.crashed
    /\ obs.pre.priority = 45 /\ obs.msg.prio = 45 /\ obs.msg.serial < obs.pre.serial
    /\ node["B"].priority = 44

---------------------------------------------------------------------------
\* One node, its neighbours, and announcements that come back to it: a
\* cinfo with the node's own serial and its own priority arrives on one of
\* its links.

InitLoop ==
    /\ scenario = "loop"
    /\ \E p \in {0, 50} :
         node = [n \in Nodes |->
                   IF n = "M" THEN NewBase(Name("M"), 30, p, <<4, 5>>) ELSE Inert(n)]
    /\ InitCommon

\* The cinfo of the node itself, with the priority it holds
OwnCinfo(st) ==
    {Msg("cinfo", id, st.priority, st.serial, st.name, 0, 0,
         SSP_VERSION, SSP_MAGIC_BYTE, st.parent) : id \in {0, st.componentId}}

EchoDeliver(n, l) ==
    /\ scenario = "loop"
    /\ node[n].constructed
    /\ steps < MaxEnvSteps
    /\ \E m \in OwnCinfo(node[n]) :
         LET r == handle_message(node[n], l, SSP_LINK_ID, m)
         IN /\ node' = [node EXCEPT ![n] = r.st]
            /\ hist' = [hist EXCEPT ![n] = Record(@, r, l, SSP_LINK_ID, m)]
            /\ obs' = Obs("handle_message", n, node[n], l, SSP_LINK_ID, m, r)
    /\ steps' = steps + 1
    /\ UNCHANGED <<chan, probes, call, lock, scenario>>

NextLoop == NextNode \/ \E l \in {4, 5} : EchoDeliver("M", l)

SpecLoop == InitLoop /\ [][NextLoop]_vars

\* The last step handled a well-formed cinfo with the receiver's own
\* priority and its own non-zero serial
OwnCinfoHandled ==
    /\ obs.op = "handle_message" /\ obs.to = SSP_LINK_ID /\ obs.msg.a = "cinfo"
    /\ obs.msg.ver = SSP_VERSION /\ obs.msg.magicByte = SSP_MAGIC_BYTE
    /\ obs.pre.serial # 0 /\ obs.msg.serial = obs.pre.serial
    /\ obs.msg.prio = obs.pre.priority

\* C21: a cinfo with the receiver's own priority and its own non-zero
\* serial is discarded with the diagnostic "direct loop detected", and the
\* receiver's id, priority, parent, routing table and neighbour table are
\* what they were.
C21_LoopDiscarded ==
    OwnCinfoHandled =>
        /\ HasEvt(obs.evts, "linkEvt:direct loop detected")
        /\ node[obs.node].componentId = obs.pre.componentId
        /\ node[obs.node].priority = obs.pre.priority
        /\ node[obs.node].parent = obs.pre.parent
        /\ node[obs.node].routes = obs.pre.routes
        /\ node[obs.node].link_neighbors = obs.pre.link_neighbors

\* C22: the priority of every node is in 0..255 at all times.
C22_PriorityRange == \A n \in Nodes : node[n].priority \in 0..255

---------------------------------------------------------------------------
\* The directory of a central (Central.register): node A has elected
\* itself and registers the candidates that announce themselves.

MaxRegs == 3

InitRegister ==
    /\ scenario = "register"
    /\ node = [n \in Nodes |->
                 IF n = "A"
                 THEN act_as_central(NewBase(Name("A"), 10, 50, <<1>>)).st
                 ELSE Inert(n)]
    /\ InitCommon

\* The candidates: suggested id 0 (none), 2 or 3; serial 0 (none), 20 or 40
Candidates ==
    {Msg("cinfo", id, 0, serial, Name("B"), 0, 0, SSP_VERSION, SSP_MAGIC_BYTE, 0) :
        id \in {0, 2, 3}, serial \in {0, 20, 40}}

\* obs.to is the id that register returned
Register ==
    /\ scenario = "register"
    /\ steps < MaxRegs
    /\ \E cinfo \in Candidates :
         LET r == register(node["A"].central, cinfo)
         IN /\ node' = [node EXCEPT !["A"].central = r.ac]
            /\ obs' = Obs("register", "A", node["A"], NoLink, r.id, cinfo,
                          Res(0, <<>>, <<>>))
    /\ steps' = steps + 1
    /\ UNCHANGED <<chan, probes, call, lock, hist, scenario>>

SpecRegister == InitRegister /\ [][Register]_vars

\* The candidate of the last register call was in the directory by serial
KnownSerial ==
    /\ obs.op = "register"
    /\ HasKey(obs.pre.central, "serial", obs.msg.serial)

\* register returned the recorded id and left the directory alone, and so
\* does the same call made once more
Reconnected ==
    LET again == register(node["A"].central, obs.msg)
    IN /\ obs.to = key_to_info(obs.pre.central, "serial", obs.msg.serial).id
       /\ node["A"].central = obs.pre.central
       /\ again.id = obs.to
       /\ again.ac = obs.pre.central

\* C23 as stated: register for a candidate whose serial is in the directory
\* returns the id recorded for that serial and adds no entry, however often
\* it is repeated.
C23_KnownSerialIdempotent == KnownSerial => Reconnected

\* C23 for a candidate that has a serial: register for a candidate whose
\* non-zero serial is in the directory returns the id recorded for that
\* serial and adds no entry, however often it is repeated.
C23_NonZeroSerialIdempotent ==
    (KnownSerial /\ obs.msg.serial # 0) => Reconnected

\* A candidate registered before comes back and suggests another id
C23_Witness ==
    /\ KnownSerial /\ obs.msg.serial # 0
    /\ Len(obs.pre.central) >= 2
    /\ obs.msg.id # obs.to
    /\ is_valid_component_id(obs.msg.id)

\* C24: when register has to allocate an id, it returns the lowest id of
\* the valid range that no directory entry uses, and none of 0, 1 and 255.
C24_LowestFreeId ==
    (obs.op = "register" /\ must_allocate(obs.pre.central, obs.msg)) =>
        /\ obs.to \notin {SSP_INVALID_COMPONENT_ID, SSP_CENTRAL_ID, SSP_LINK_ID}
        /\ is_valid_component_id(obs.to)
        /\ ~HasKey(obs.pre.central, "id", obs.to)
        /\ \A id \in 1..obs.to :
              (is_valid_component_id(id) /\ id # SSP_CENTRAL_ID /\ id # obs.to)
                 => HasKey(obs.pre.central, "id", id)

---------------------------------------------------------------------------
\* The node's lock (self._lock, an RLock).  Node M is used by two threads,
\* the receive contexts of its links 4 and 5, which also run the node's
\* other operations.  An operation that takes the lock waits for it, runs
\* its locked statements in one step and releases it in the next; an
\* operation that takes no lock runs in one step.

MaxLockOps == 3

RxLink(c) == IF c = "t1" THEN 4 ELSE 5

LkIdle == [pc |-> "idle", op |-> "none", to |-> 0, msg |-> NoMsg]

InitLock ==
    /\ scenario = "lock"
    /\ \E p \in {0, 50} :
         node = [n \in Nodes |->
                   IF n = "M" THEN NewBase(Name("M"), 30, p, <<4, 5>>) ELSE Inert(n)]
    /\ chan = [l \in Links |-> <<>>]
    /\ probes = 0
    /\ steps = 0
    /\ call = [c \in Callers |-> LkIdle]
    /\ lock = "free"
    /\ hist = [n \in Nodes |-> NoHist]
    /\ obs = Obs("init", "A", Inert("A"), NoLink, 0, NoMsg, Res(0, <<>>, <<>>))

\* Variant of the dispatch in which a link newid is handled without the lock
locked_handler_newid_open(st, to, msg) ==
    IF to = SSP_INVALID_COMPONENT_ID THEN "unlocked"
    ELSE IF to = st.componentId /\ st.componentId # SSP_INVALID_COMPONENT_ID
    THEN (IF msg.a = "cinfo" THEN "net_cinfo"
          ELSE IF msg.a = "newid" THEN "net_newid" ELSE "unlocked")
    ELSE IF to = SSP_LINK_ID /\ msg.a = "cinfo" THEN "link_cinfo"
    ELSE "unlocked"

\* handle_message, lines 300-321 and 362-382: the handler that is called
\* inside `with self._lock`, chosen before the lock is taken; "unlocked"
\* when the message is handled without the lock
locked_handler(st, to, msg) ==
    IF to = SSP_INVALID_COMPONENT_ID THEN "unlocked"
    ELSE IF to = st.componentId /\ st.componentId # SSP_INVALID_COMPONENT_ID
    THEN (IF msg.a = "cinfo" THEN "net_cinfo"
          ELSE IF msg.a = "newid" THEN "net_newid" ELSE "unlocked")
    ELSE IF to = SSP_LINK_ID
    THEN (IF msg.a = "cinfo" THEN "link_cinfo"
          ELSE IF msg.a = "newid" THEN "link_newid" ELSE "unlocked")
    ELSE "unlocked"

\* The statements an operation runs with the lock held
run_locked(st, c, op, to, msg) ==
    CASE op = "link_cinfo" -> _handle_link_cinfo(st, RxLink(c), msg)
      [] op = "link_newid" -> _handle_link_newid(st, RxLink(c), msg)
      [] op = "net_cinfo" -> _handle_net_cinfo(st, RxLink(c), msg)
      [] op = "net_newid" -> _handle_net_newid(st, RxLink(c), msg)
      [] op = "act_as_central" ->
            LET r == act_as_central(st)
            IN [r EXCEPT !.st = [r.st EXCEPT !.constructed = TRUE]]
      [] op = "forget_network" -> forget_network(st)
      [] op = "make_ticket" ->
            LET t == scan_ticket(st.last_ticket, st.reply_callbacks, 0)
            IN IF Has(st.reply_callbacks, t)
               THEN Crash([st EXCEPT !.last_ticket = t], <<>>, <<>>)
               ELSE Res([st EXCEPT !.last_ticket = t,
                                   !.reply_callbacks = Put(@, t, c)], <<>>, <<>>)
      [] op = "remove_ticket" -> Res(remove_ticket(st, to), <<>>, <<>>)

\* The statements an operation runs without the lock
run_unlocked(st, c, op, to, msg) ==
    CASE op = "handle_message" -> handle_message(st, RxLink(c), to, msg)
      [] op = "send" -> send(st, to, msg)
      [] op = "loop" -> Networker_loop(st)

\* What the threads are asked to do: messages from the neighbours, and the
\* node's own operations
LockInputs ==
    {[op |-> "handle_message", to |-> SSP_LINK_ID,
      msg |-> Msg("cinfo", 0, 60, 40, Name("D"), 0, 0, SSP_VERSION, SSP_MAGIC_BYTE, 0)],
     [op |-> "handle_message", to |-> SSP_LINK_ID, msg |-> NewId(2, 1, 61, EmptyName)],
     [op |-> "handle_message", to |-> 2,
      msg |-> Msg("cinfo", 0, 0, 40, Name("D"), 0, 3, SSP_VERSION, SSP_MAGIC_BYTE, 0)],
     [op |-> "handle_message", to |-> 2, msg |-> NewId(3, 1, 61, EmptyName)],
     [op |-> "handle_message", to |-> SSP_LINK_ID, msg |-> AppMsg("reply", 1, 1)],
     [op |-> "handle_message", to |-> 3, msg |-> AppMsg("call", 7, 3)],
     [op |-> "send", to |-> 3, msg |-> AppMsg("call", 7, 2)],
     [op |-> "loop", to |-> 0, msg |-> NoMsg],
     [op |-> "forget_network", to |-> 0, msg |-> NoMsg],
     [op |-> "make_ticket", to |-> 0, msg |-> NoMsg],
     [op |-> "remove_ticket", to |-> 1, msg |-> NoMsg]}

\* A thread starts an operation.  One that takes no lock is done in this
\* step; the others go on to wait for the lock.
LkEnter(c) ==
    /\ scenario = "lock"
    /\ call[c].pc = "idle"
    /\ steps < MaxLockOps
    /\ \E i \in LockInputs \cup {[op |-> "act_as_central", to |-> 0, msg |-> NoMsg]} :
         /\ (i.op = "act_as_central") = ~node["M"].constructed
         /\ LET h == IF i.op = "handle_message"
                     THEN locked_handler(node["M"], i.to, i.msg)
                     ELSE IF i.op \in {"send", "loop"} THEN "unlocked" ELSE i.op
            IN IF h = "unlocked"
               THEN LET r == run_unlocked(node["M"], c, i.op, i.to, i.msg)
                    IN /\ node' = [node EXCEPT !["M"] = r.st]
                       /\ call' = call
                       /\ obs' = Obs(i.op, "M", node["M"], RxLink(c), i.to, i.msg, r)
               ELSE /\ node' = node
                    /\ call' = [call EXCEPT ![c] = [pc |-> "wait", op |-> h,
                                                   to |-> i.to, msg |-> i.msg]]
                    /\ obs' = Obs("enter", "M", node["M"], RxLink(c), i.to, i.msg,
                                  Res(0, <<>>, <<>>))
    /\ steps' = steps + 1
    /\ UNCHANGED <<chan, probes, lock, hist, scenario>>

\* with self._lock
LkAcquire(c) ==
    /\ call[c].pc = "wait"
    /\ LockFree(lock, c)
    /\ lock' = c
    /\ call' = [call EXCEPT ![c].pc = "in"]
    /\ obs' = Obs("acquire", "M", node["M"], RxLink(c), call[c].to, call[c].msg,
                  Res(0, <<>>, <<>>))
    /\ UNCHANGED <<node, chan, probes, steps, hist, scenario>>

LkBody(c) ==
    /\ call[c].pc = "in"
    /\ LET r == run_locked(node["M"], c, call[c].op, call[c].to, call[c].msg)
       IN /\ node' = [node EXCEPT !["M"] = r.st]
          /\ obs' = Obs(call[c].op, "M", node["M"], RxLink(c), call[c].to,
                        call[c].msg, r)
    /\ call' = [call EXCEPT ![c].pc = "out"]
    /\ UNCHANGED <<chan, probes, steps, lock, hist, scenario>>

LkRelease(c) ==
    /\ call[c].pc = "out"
    /\ lock' = "free"
    /\ call' = [call EXCEPT ![c] = LkIdle]
    /\ obs' = Obs("release", "M", node["M"], RxLink(c), 0, NoMsg, Res(0, <<>>, <<>>))
    /\ UNCHANGED <<node, chan, probes, steps, hist, scenario>>

NextLock ==
    \E c \in Callers : LkEnter(c) \/ LkAcquire(c) \/ LkBody(c) \/ LkRelease(c)

SpecLock == InitLock /\ [][NextLock]_vars

\* The state that the lock guards
Guarded(st) ==
    <<st.routes, st.link_neighbors, st.reply_callbacks, st.priority, st.componentId>>

\* C25: every step that changes the routing table, the neighbour table, the
\* ticket table, the priority or the id of a node is taken by the thread
\* that holds the node's lock.
C25_ChangesUnderLock ==
    [][\A n \in Nodes :
          Guarded(node[n])' # Guarded(node[n]) =>
             \E c \in Callers : /\ lock = c /\ lock' = c
                                /\ call[c].pc = "in" /\ call'[c].pc = "out"]_vars

\* The holder of the lock has changed the guarded state while the other
\* thread waits for the lock with a message of its own
C25_Witness ==
    /\ scenario = "lock"
    /\ \E c, d \in Callers :
          /\ lock = c /\ call[c].pc = "out" /\ call[c].op = "link_newid"
          /\ call[d].pc = "wait" /\ call[d].op = "link_cinfo"
    /\ Guarded(node["M"]) # Guarded(obs.pre)

---------------------------------------------------------------------------
\* The periodic re-probe (Networker): node M with the links 4 and 5, both
\* probing automatically, and whatever its neighbours send it.  The timer
\* is started again by the last statement of loop, so a run of loop that
\* ends by an exception is the last one; in this configuration probes
\* counts the runs that ended so.

InitProbe ==
    /\ scenario = "probe"
    /\ \E p \in {0, 50} :
         node = [n \in Nodes |->
                   IF n = "M" THEN NewBase(Name("M"), 30, p, <<4, 5>>) ELSE Inert(n)]
    /\ InitCommon

\* The timer fires: one run of Networker.loop, lines 198-213
Tick(n) ==
    /\ scenario = "probe"
    /\ node[n].constructed
    /\ probes = 0
    /\ LET r == Networker_loop(node[n])
       IN /\ hist' = [hist EXCEPT ![n] = Record(@, r, NoLink, 0, NoMsg)]
          /\ obs' = Obs("loop", n, node[n], NoLink, 0, NoMsg, r)
          /\ probes' = IF r.crashed THEN 1 ELSE 0
    /\ UNCHANGED <<node, chan, steps, call, lock, scenario>>

NextProbe ==
    \/ Start("M")
    \/ \E l \in {4, 5} : EnvDeliver("M", l)
    \/ Tick("M")

SpecProbe == InitProbe /\ [][NextProbe]_vars

\* The timer keeps firing and the node's construction completes
FairProbe == SpecProbe /\ WF_vars(Start("M")) /\ WF_vars(Tick("M"))

\* The node knows who is behind its link l
KnownNeighbor(n, l) ==
    Has(node[n].link_neighbors, l) /\ node[n].link_neighbors[l] # 0

\* The last step was a run of loop that announced the node on link l
AnnouncedOn(n, l) ==
    /\ obs.op = "loop" /\ obs.node = n
    /\ \E i \in 1..Len(obs.out) :
          /\ obs.out[i].link = l /\ obs.out[i].to = SSP_LINK_ID
          /\ obs.out[i].msg.a = "cinfo"

\* C26: as long as a link attached to the node has no known neighbour, the
\* re-probe keeps announcing the node's cinfo on that link: at all times,
\* either the neighbour of the link becomes known or another announcement
\* on the link follows.
C26_KeepsProbing ==
    \A l \in {4, 5} : []<>(KnownNeighbor("M", l) \/ AnnouncedOn("M", l))

---------------------------------------------------------------------------
\* One node and neighbours that send it malformed or misaddressed
\* messages besides the well-formed ones.

InitFault ==
    /\ scenario = "fault"
    /\ \E p \in {0, 50} :
         node = [n \in Nodes |->
                   IF n = "M" THEN NewBase(Name("M"), 30, p, <<4, 5>>) ELSE Inert(n)]
    /\ InitCommon

\* A newid that hands out the central's id; a net cinfo addressed to the
\* node that announces a priority of 200; a cinfo of another protocol
\* version; a message without a destination
FaultInputs(st) ==
    {[to |-> SSP_LINK_ID, msg |-> NewId(SSP_CENTRAL_ID, 2, 61, EmptyName)],
     [to |-> st.componentId,
      msg |-> Msg("cinfo", 0, 200, 40, Name("D"), 0, 3, SSP_VERSION, SSP_MAGIC_BYTE, 0)],
     [to |-> SSP_LINK_ID,
      msg |-> Msg("cinfo", 0, 60, 40, Name("D"), 0, 0, SSP_VERSION + 1, SSP_MAGIC_BYTE, 0)],
     [to |-> SSP_INVALID_COMPONENT_ID, msg |-> AppMsg("call", 7, 3)]}

FaultDeliver(n, l) ==
    /\ scenario = "fault"
    /\ node[n].constructed
    /\ steps < MaxEnvSteps
    /\ \E i \in FaultInputs(node[n]) :
         LET r == handle_message(node[n], l, i.to, i.msg)
         IN /\ node' = [node EXCEPT ![n] = r.st]
            /\ hist' = [hist EXCEPT ![n] = Record(@, r, l, i.to, i.msg)]
            /\ obs' = Obs("handle_message", n, node[n], l, i.to, i.msg, r)
    /\ steps' = steps + 1
    /\ UNCHANGED <<chan, probes, call, lock, scenario>>

NextFault == NextNode \/ \E l \in {4, 5} : FaultDeliver("M", l)

SpecFault == InitFault /\ [][NextFault]_vars

\* C27: no received message makes handle_message end by an exception.
C27_HandlerNeverFails == obs.op = "handle_message" => ~obs.crashed

---------------------------------------------------------------------------
\* core/framing.py: the LineReader that turns the bytes of a serial link
\* into lines.  Bytes are integers; a line is the sequence of its bytes.

CR == 13
LF == 10
NoChar == 0     \* _last_char before the first terminator (Python None)

\* Bounds: the length of the byte stream, and of one chunk handed to
\* data_received
MaxStream == 5
MaxChunk == 3

\* An ASCII letter, a byte that is not ASCII, and the two terminators
Bytes == {97, 200, CR, LF}

Streams == UNION {[1..n -> Bytes] : n \in 0..MaxStream}

\* The link whose bytes the reader receives
SerialLink == 4

\* LineReader.__init__; lines is what on_line_cb has been called with
LineReader == [data |-> <<>>, last_char |-> NoChar, lines |-> <<>>]

\* bytearray.find: the index of the first b, counted from 0, or -1
find(data, b) ==
    IF \E i \in 1..Len(data) : data[i] = b
    THEN (CHOOSE i \in 1..Len(data) :
             data[i] = b /\ \A j \in 1..(i - 1) : data[j] # b) - 1
    ELSE -1

\* line.decode(encoding='ascii') succeeds
decodes(line) == \A i \in 1..Len(line) : line[i] < 128

\* The test that guards the decoding of a line ended by terminator c
is_line_emitted_any(line, last_char, c) == TRUE

is_line(line, last_char, c) == line # <<>> \/ last_char = c

\* The loop of data_received over the buffered bytes
RECURSIVE scan_lines(_)
scan_lines(r) ==
    LET ix == find(r.data, CR)
        ix2 == find(r.data, LF)
    IN IF ix = -1 /\ ix2 = -1 THEN r
       ELSE IF ix = -1 \/ (ix2 > -1 /\ ix2 < ix)
       THEN \* \n comes first: the decoded line is passed on if it is not empty
            LET line == SubSeq(r.data, 1, ix2)
                rest == SubSeq(r.data, ix2 + 2, Len(r.data))
                s_ok == is_line(line, r.last_char, LF) /\ decodes(line) /\ line # <<>>
            IN scan_lines([data |-> rest, last_char |-> LF,
                           lines |-> IF s_ok THEN Append(r.lines, line) ELSE r.lines])
       ELSE \* \r comes first: the decoded line is passed on, empty or not
            LET line == SubSeq(r.data, 1, ix)
                rest == SubSeq(r.data, ix + 2, Len(r.data))
                ok == is_line(line, r.last_char, CR) /\ decodes(line)
            IN scan_lines([data |-> rest, last_char |-> CR,
                           lines |-> IF ok THEN Append(r.lines, line) ELSE r.lines])

\* A reader that looks at the new bytes only
data_received_new_only(r, data) == scan_lines([r EXCEPT !.data = data])

data_received(r, data) == scan_lines([r EXCEPT !.data = @ \o data])

\* The lines a fresh reader emits when it gets the bytes in one call
LinesOf(stream) == data_received(LineReader, stream).lines

\* The bytes not yet read from the link are chan[SerialLink], the reader is
\* call, steps counts the calls of data_received
InitLines ==
    /\ scenario = "lines"
    /\ node = [n \in Nodes |-> Inert(n)]
    /\ \E s \in Streams : chan = [l \in Links |-> IF l = SerialLink THEN s ELSE <<>>]
    /\ probes = 0
    /\ steps = 0
    /\ call = LineReader
    /\ lock = "free"
    /\ hist = [n \in Nodes |-> NoHist]
    /\ obs = [op |-> "init", pre |-> LineReader, data |-> <<>>, fed |-> <<>>]

\* The serial daemon hands the next k bytes of the link to the reader
DataReceived(k) ==
    /\ scenario = "lines"
    /\ k <= Len(chan[SerialLink])
    /\ LET data == SubSeq(chan[SerialLink], 1, k)
       IN /\ call' = data_received(call, data)
          /\ obs' = [op |-> "data_received", pre |-> call, data |-> data,
                     fed |-> obs.fed \o data]
    /\ chan' = [chan EXCEPT ![SerialLink] = SubSeq(@, k + 1, Len(@))]
    /\ steps' = steps + 1
    /\ UNCHANGED <<node, probes, lock, hist, scenario>>

NextLines == \E k \in 1..MaxChunk : DataReceived(k)

SpecLines == InitLines /\ [][NextLines]_vars

\* Byte i of the stream is a terminator and byte i - 1 the other one
MixedPairAt(stream, i) ==
    \/ stream[i - 1] = CR /\ stream[i] = LF
    \/ stream[i - 1] = LF /\ stream[i] = CR

\* Byte i of the stream is a terminator and byte i - 1 the same one
SamePairAt(stream, i) ==
    /\ stream[i] \in {CR, LF}
    /\ stream[i - 1] = stream[i]

Prefix(stream, i) == SubSeq(stream, 1, i)

\* C28: the second byte of a CR LF or LF CR pair emits no line: the lines of
\* the bytes received up to and including the pair are the lines of the
\* bytes up to its first byte, and the reader holds what it was given.
C28_PairIsOneTerminator ==
    scenario = "lines" =>
       /\ call.lines = LinesOf(obs.fed)
       /\ \A i \in 2..Len(obs.fed) :
             MixedPairAt(obs.fed, i) =>
                LinesOf(Prefix(obs.fed, i)) = LinesOf(Prefix(obs.fed, i - 1))

\* The reader got a letter, CR and LF, the pair split over two calls, and
\* emitted the one line
C28_Witness ==
    /\ scenario = "lines"
    /\ obs.fed = <<97, CR, LF>>
    /\ obs.data = <<LF>>
    /\ call.lines = <<(<<97>>)>>

\* C29: the second of two identical successive terminators emits an empty
\* line after the lines emitted before it.
C29_DoubleTerminatorEmitsEmpty ==
    scenario = "lines" =>
       \A i \in 2..Len(obs.fed) :
          SamePairAt(obs.fed, i) =>
             LinesOf(Prefix(obs.fed, i)) =
                Append(LinesOf(Prefix(obs.fed, i - 1)), <<>>)

\* C30: whatever the chunks were, the reader has emitted the lines that a
\* reader given the same bytes in one chunk emits.
C30_ChunkingIrrelevant ==
    scenario = "lines" => call.lines = LinesOf(obs.fed)

\* Two lines came out of bytes that arrived in three calls, of which one
\* ended in the middle of a line and one between a CR and its LF
C30_Witness ==
    /\ scenario = "lines"
    /\ steps = 3
    /\ Len(call.lines) = 2
    /\ obs.pre.last_char = CR
    /\ obs.data[1] = LF
    /\ chan[SerialLink] = <<>>

---------------------------------------------------------------------------
\* sspt/ontology.py: the registry, a mapping from index to definition.  A
\* definition is a Python object: it has an identity (its number in objs),
\* a structure, and the fields regIx and _label that add() writes.

\* Bound: calls of add
MaxAdds == 3

NoLabel == "none"                 \* Python None where a label is expected
RegIndices == {10, 11}
ObjIds == 1..3
Labels == {NoLabel, "L"}

\* Objects 1 and 2 are two objects of the same structure
Structure(o) == IF o = 3 THEN "int16" ELSE "uint8"

\* RegistryClass.__init__, and three definitions not yet in a registry
RegistryClass ==
    [pyObjs |-> EmptyDict, labels |-> EmptyDict,
     objs |-> [o \in ObjIds |-> [regIx |-> NoneId, label |-> NoLabel]]]

\* SspPyObj.equals: structurally the same
equals(reg, a, b) ==
    \/ a = b
    \/ reg.objs[a].regIx # NoneId /\ reg.objs[a].regIx = reg.objs[b].regIx
    \/ Structure(a) = Structure(b)

\* The == of two definitions: no class defines __eq__, so this is identity
py_eq(a, b) == a = b

\* RegistryClass.add: the registry after the call and how the call ended
add(reg, index, obj, label) ==
    IF Has(reg.pyObjs, index) /\ ~py_eq(reg.pyObjs[index], obj)
    THEN [st |-> reg, raised |-> "conflict"]
    ELSE
    LET r1 == [reg EXCEPT !.pyObjs = Put(@, index, obj)]
        o == reg.objs[obj]
    IN IF o.regIx # NoneId /\ o.regIx # index
       THEN [st |-> r1, raised |-> IF label = NoLabel THEN "none" ELSE "assert"]
       ELSE IF o.label # NoLabel /\ label # NoLabel /\ label # o.label
       THEN [st |-> r1, raised |-> "assert"]
       ELSE
       LET lab == IF o.label # NoLabel THEN o.label ELSE label
       IN IF lab = NoLabel
          THEN [st |-> [r1 EXCEPT !.objs[obj].regIx = index], raised |-> "none"]
          ELSE IF Has(r1.labels, lab) /\ r1.labels[lab] # index
          THEN [st |-> r1, raised |-> "assert"]
          ELSE [st |-> [r1 EXCEPT !.labels = Put(@, lab, index),
                                  !.objs[obj] = [regIx |-> index, label |-> lab]],
                raised |-> "none"]

InitRegistry ==
    /\ scenario = "registry"
    /\ node = [n \in Nodes |-> Inert(n)]
    /\ chan = [l \in Links |-> <<>>]
    /\ probes = 0
    /\ steps = 0
    /\ call = RegistryClass
    /\ lock = "free"
    /\ hist = [n \in Nodes |-> NoHist]
    /\ obs = [op |-> "init", pre |-> RegistryClass, index |-> 0, obj |-> 0,
              label |-> NoLabel, raised |-> "none"]

\* Ontology.add_entry
AddEntry(index, obj, label) ==
    /\ scenario = "registry"
    /\ steps < MaxAdds
    /\ LET r == add(call, index, obj, label)
       IN /\ call' = r.st
          /\ obs' = [op |-> "add", pre |-> call, index |-> index, obj |-> obj,
                     label |-> label, raised |-> r.raised]
    /\ steps' = steps + 1
    /\ UNCHANGED <<node, chan, probes, lock, hist, scenario>>

NextRegistry ==
    \E index \in RegIndices, obj \in ObjIds, label \in Labels :
       AddEntry(index, obj, label)

SpecRegistry == InitRegistry /\ [][NextRegistry]_vars

\* What a registry holds: the structure at every index, and the labels
Definitions(reg) ==
    [defs |-> [i \in DOMAIN reg.pyObjs |-> Structure(reg.pyObjs[i])],
     labels |-> reg.labels]

\* The last step added a definition, without a label, at an occupied index
AddAtOccupied ==
    /\ scenario = "registry" /\ obs.op = "add"
    /\ obs.label = NoLabel
    /\ Has(obs.pre.pyObjs, obs.index)

\* C31: an add at an index that holds a structurally identical definition
\* succeeds and leaves the registry as it was; an add of a structurally
\* different definition at an occupied index raises the conflict error.
C31_AddIdempotent ==
    AddAtOccupied =>
       IF equals(obs.pre, obs.pre.pyObjs[obs.index], obs.obj)
       THEN obs.raised = "none" /\ Definitions(call) = Definitions(obs.pre)
       ELSE obs.raised = "conflict" /\ call = obs.pre

---------------------------------------------------------------------------
\* Two nodes in one process, joined by a LocalLink (core/ssplink.py):
\* LocalLink.send calls the handle_message of the peer node on the thread of
\* the sender, so a handler that sends on the link while it holds its node's
\* lock makes its thread take the lock of the peer node as well.  Here lock
\* is node -> owner and depth of the node's RLock, and call is thread -> the
\* stack of handle_message calls the thread is in.

\* Bound: probes started by the threads
MaxLocalProbes == 3

LocalNodes == {"A", "B"}
LocalLinkOf(n) == IF n = "A" THEN 1 ELSE 2
HomeOf(t) == IF t = "t1" THEN "A" ELSE "B"

Frame(n, from_link, to, msg) ==
    [node |-> n, from_link |-> from_link, to |-> to, msg |-> msg,
     pc |-> "wait", out |-> <<>>]

Top(stack) == stack[Len(stack)]
Pop(stack) == SubSeq(stack, 1, Len(stack) - 1)

InitLocal ==
    /\ scenario = "local"
    /\ node = [n \in Nodes |->
                 CASE n = "A" ->
                        [act_as_central(NewBase(Name("A"), 10, 50, <<1>>)).st
                            EXCEPT !.constructed = TRUE]
                   [] n = "B" -> NewBase(Name("B"), 20, 0, <<2>>)
                   [] OTHER -> Inert(n)]
    /\ chan = [l \in Links |-> <<>>]
    /\ probes = 0
    /\ steps = 0
    /\ call = [t \in Callers |-> <<>>]
    /\ lock = [n \in LocalNodes |-> [owner |-> "free", depth |-> 0]]
    /\ hist = [n \in Nodes |-> NoHist]
    /\ obs = Obs("init", "A", Inert("A"), NoLink, 0, NoMsg, Res(0, <<>>, <<>>))

\* LocalLink.send: the thread enters handle_message of the peer node
local_send(stack, m) ==
    Append(stack, Frame(Owner(Peer(m.link)), Peer(m.link), m.to, m.msg))

\* probe_for_neighbor of the thread's node, on the thread: the cinfo goes out
\* without the node's lock
ProbeForNeighbor(t) ==
    /\ scenario = "local"
    /\ call[t] = <<>>
    /\ steps < MaxLocalProbes
    /\ LET n == HomeOf(t)
           l == LocalLinkOf(n)
       IN call' = [call EXCEPT ![t] =
                      local_send(<<>>, Send(l, SSP_LINK_ID, get_our_cinfo(node[n], l)))]
    /\ steps' = steps + 1
    /\ UNCHANGED <<node, chan, probes, lock, hist, obs, scenario>>

\* handle_message: with self._lock, then the handler up to its send
LocalAcquire(t) ==
    /\ scenario = "local"
    /\ call[t] # <<>>
    /\ LET f == Top(call[t])
           n == f.node
           r == handle_message(node[n], f.from_link, f.to, f.msg)
       IN /\ f.pc = "wait"
          /\ lock[n].owner \in {"free", t}
          /\ lock' = [lock EXCEPT ![n] = [owner |-> t, depth |-> @.depth + 1]]
          /\ node' = [node EXCEPT ![n] = r.st]
          /\ call' = [call EXCEPT ![t][Len(call[t])] =
                         [f EXCEPT !.pc = "held", !.out = IF r.crashed THEN <<>> ELSE r.out]]
          /\ obs' = Obs("handle_message", n, node[n], f.from_link, f.to, f.msg, r)
    /\ UNCHANGED <<chan, probes, steps, hist, scenario>>

\* The handler's send on the link, inside the with block
LocalLinkSend(t) ==
    /\ scenario = "local"
    /\ call[t] # <<>>
    /\ LET f == Top(call[t])
       IN /\ f.pc = "held"
          /\ f.out # <<>>
          /\ call' = [call EXCEPT ![t] =
                         local_send([call[t] EXCEPT ![Len(call[t])].out = Tail(f.out)],
                                    Head(f.out))]
    /\ UNCHANGED <<node, chan, probes, steps, lock, hist, obs, scenario>>

\* The end of the with block and of handle_message
LocalReturn(t) ==
    /\ scenario = "local"
    /\ call[t] # <<>>
    /\ LET f == Top(call[t])
           n == f.node
       IN /\ f.pc = "held"
          /\ f.out = <<>>
          /\ lock' = [lock EXCEPT ![n] =
                         IF @.depth = 1 THEN [owner |-> "free", depth |-> 0]
                         ELSE [@ EXCEPT !.depth = @ - 1]]
          /\ call' = [call EXCEPT ![t] = Pop(@)]
    /\ UNCHANGED <<node, chan, probes, steps, hist, obs, scenario>>

NextLocal ==
    \E t \in Callers :
       \/ ProbeForNeighbor(t)
       \/ LocalAcquire(t)
       \/ LocalLinkSend(t)
       \/ LocalReturn(t)

SpecLocal == InitLocal /\ [][NextLocal]_vars

\* Thread t is about to take a node lock that thread u holds
WaitsFor(t, u) ==
    /\ call[t] # <<>>
    /\ Top(call[t]).pc = "wait"
    /\ lock[Top(call[t]).node].owner = u

\* C32: the two threads never wait for each other's node lock.
C32_NoDeadlock ==
    scenario = "local" => ~(WaitsFor("t1", "t2") /\ WaitsFor("t2", "t1"))

---------------------------------------------------------------------------
\* reactive/eventthread.py: a SchedulerThread that runs the jobs of a
\* SimpleScheduler (reactive/observable.py), and another thread that posts
\* jobs to the scheduler and stops the thread.  call holds the scheduler's
\* queue, the thread's event and flags, and where the two threads are.

\* Bound: jobs posted
MaxPosts == 3

\* After SchedulerThread.__init__ and start()
SchedulerThread ==
    [job_queue |-> <<>>, external_event |-> FALSE,
     alive |-> TRUE, stop_when_done |-> FALSE,
     pc |-> "test", poster |-> "idle", posted |-> 0, ran |-> {}]

InitSched ==
    /\ scenario = "sched"
    /\ node = [n \in Nodes |-> Inert(n)]
    /\ chan = [l \in Links |-> <<>>]
    /\ probes = 0
    /\ steps = 0
    /\ call = SchedulerThread
    /\ lock = "free"
    /\ hist = [n \in Nodes |-> NoHist]
    /\ obs = Obs("init", "A", Inert("A"), NoLink, 0, NoMsg, Res(0, <<>>, <<>>))

SchedStep(c) ==
    /\ scenario = "sched"
    /\ call' = c
    /\ UNCHANGED <<node, chan, probes, steps, lock, hist, obs, scenario>>

\* run: while self._alive
RunTest ==
    /\ call.pc = "test"
    /\ SchedStep([call EXCEPT !.pc = IF call.alive THEN "pop" ELSE "exit"])

\* run: job = pop_job(), and the tests of the job
RunPop ==
    /\ call.pc = "pop"
    /\ SchedStep(IF call.job_queue = <<>>
                 THEN [call EXCEPT !.pc = IF call.stop_when_done THEN "exit" ELSE "clear"]
                 ELSE [call EXCEPT !.pc = "job", !.job_queue = Tail(@),
                                   !.ran = @ \cup {Head(call.job_queue)}])

\* run: self._external_event.clear()
RunClear ==
    /\ call.pc = "clear"
    /\ SchedStep([call EXCEPT !.external_event = FALSE, !.pc = "wait"])

\* run: self._external_event.wait() returns
RunWait ==
    /\ call.pc = "wait"
    /\ call.external_event
    /\ SchedStep([call EXCEPT !.pc = "test"])

\* run: job()
RunJob ==
    /\ call.pc = "job"
    /\ SchedStep([call EXCEPT !.pc = "test"])

\* SimpleScheduler.post_job on the other thread, up to the end of the with
\* block: the observers are notified if the queue was empty
PostJob ==
    /\ call.poster = "idle"
    /\ call.posted < MaxPosts
    /\ SchedStep([call EXCEPT !.job_queue = Append(@, call.posted + 1),
                              !.posted = @ + 1,
                              !.poster = IF call.job_queue = <<>> THEN "notify" ELSE "idle"])

\* post_job: notify_observers, which runs _on_job_available at once
NotifyObservers ==
    /\ call.poster = "notify"
    /\ SchedStep([call EXCEPT !.external_event = TRUE, !.poster = "idle"])

\* SchedulerThread.stop on the other thread
Stop(run_enqueued_jobs) ==
    /\ call.poster = "idle"
    /\ ~call.stop_when_done
    /\ SchedStep([call EXCEPT !.stop_when_done = TRUE,
                              !.alive = IF run_enqueued_jobs THEN @ ELSE FALSE,
                              !.external_event = TRUE])

NextSched ==
    \/ RunTest \/ RunPop \/ RunClear \/ RunWait \/ RunJob
    \/ PostJob \/ NotifyObservers
    \/ \E b \in BOOLEAN : Stop(b)

SpecSched == InitSched /\ [][NextSched]_vars

\* The thread sleeps in wait() and no call in progress is going to wake it
Asleep ==
    /\ call.pc = "wait"
    /\ ~call.external_event
    /\ call.poster = "idle"

\* C33: before stop(), the thread does not sleep waiting for a job while a
\* posted job is in the queue.
C33_NoJobLeftAsleep ==
    scenario = "sched" =>
       ~(Asleep /\ ~call.stop_when_done /\ call.job_queue # <<>>)

---------------------------------------------------------------------------
\* Outbound calls whose requests reach a peer that answers them when it
\* gets to them, possibly after the call has timed out.  chan[1] holds the
\* requests the peer has not answered yet.  A request and its answer carry
\* the number of the call they belong to in the field call_no, which no
\* handler reads.

\* lines 87-89, and the request on its way to the peer
RequestToPeer(c) ==
    /\ call[c].pc = "waiting" /\ ~call[c].sent
    /\ LET m == AppMsg(call[c].api, call[c].ticket, node[T].componentId)
           r == send(node[T], SSP_CENTRAL_ID, m)
       IN /\ node' = [node EXCEPT ![T] = r.st]
          /\ obs' = Obs("send", T, node[T], NoLink, SSP_CENTRAL_ID, m, r)
          /\ chan' = [chan EXCEPT ![1] = Append(@, m @@ [call_no |-> steps])]
    /\ call' = [call EXCEPT ![c].sent = TRUE]
    /\ UNCHANGED <<probes, steps, lock, hist, scenario>>

\* The peer answers the oldest request with a reply or a nack that carries
\* the ticket of the request; handle_message passes it to the callback
\* registered for that ticket
PeerAnswer ==
    /\ chan[1] # <<>>
    /\ \E a \in {"reply", "nack"} :
         LET req == Head(chan[1])
             m == AppMsg(a, req.tk, SSP_CENTRAL_ID) @@ [call_no |-> req.call_no]
             r == handle_message(node[T], 1, node[T].componentId, m)
             who == Called(node[T], r.evts)
         IN /\ \A c \in who \cap Callers : Len(call[c].q) < MaxQueue
            /\ node' = [node EXCEPT ![T] = r.st]
            /\ call' = [c \in Callers |->
                          IF c \in who THEN [call[c] EXCEPT !.q = Append(@, m)]
                          ELSE call[c]]
            /\ obs' = Obs("handle_message", T, node[T], 1, node[T].componentId, m, r)
    /\ chan' = [chan EXCEPT ![1] = Tail(@)]
    /\ UNCHANGED <<probes, steps, lock, hist, scenario>>

NextReuse ==
    \/ \E c \in CallThreads :
          \/ Begin(c) \/ Scan(c) \/ Check(c) \/ Assign(c) \/ RequestToPeer(c)
          \/ Receive(c) \/ Timeout(c) \/ Finish(c)
    \/ PeerAnswer

SpecReuse == InitCall /\ [][NextReuse]_vars

\* C34: every reply or nack in the queue of a call answers the request of
\* that call (steps is the number of the call the thread is in).
C34_AnswerReachesItsCall ==
    \A c \in CallThreads :
       \A i \in 1..Len(call[c].q) : call[c].q[i].call_no = steps

---------------------------------------------------------------------------
\* Outbound calls whose progress callback may raise.  call() passes the
\* caller's callback to _send_and_get_reply, which calls it for every ack
\* (lines 99-102) and for the reply (lines 106-109).

callback_raised ==
    [case |-> "exception", exc |-> "callback", text |-> "", code |-> 0]

\* callback(data) raises: the exception leaves _send_and_get_reply and call()
CallbackRaises(c) ==
    /\ call[c].pc = "waiting" /\ call[c].sent
    /\ call[c].api = "call"
    /\ call[c].q # <<>>
    /\ Head(call[c].q).a \in {"ack", "reply"}
    /\ call' = [call EXCEPT ![c] =
                   [NoCall EXCEPT !.ticket = call[c].ticket, !.result = callback_raised]]
    /\ obs' = Obs("raise", T, node[T], NoLink, call[c].ticket, Head(call[c].q),
                  Res(0, <<>>, <<>>))
    /\ UNCHANGED <<node, chan, probes, steps, lock, hist, scenario>>

NextLeak == NextCall \/ \E c \in CallThreads : CallbackRaises(c)

SpecLeak == InitCall /\ [][NextLeak]_vars

\* The thread is in no call and a ticket is registered for it
TicketLeft(c) ==
    /\ call[c].pc = "idle"
    /\ \E t \in DOMAIN node[T].reply_callbacks : node[T].reply_callbacks[t] = c

\* C35: when a call has ended, by a reply, a nack, a timeout or an
\* exception, no ticket is registered for it.
C35_TicketGoneAtEnd == \A c \in CallThreads : ~TicketLeft(c)

---------------------------------------------------------------------------
\* Link newids that the receiver should turn down (SpecNode)

\* The last step handled a link newid
LinkNewIdHandled ==
    /\ obs.op = "handle_message"
    /\ obs.to = SSP_LINK_ID
    /\ obs.msg.a = "newid"

\* C36: a newid of lower priority than the receiver's leaves the receiver's
\* id, parent, priority, routing table and neighbour table as they were.
C36_LowerNewIdIgnored ==
    (LinkNewIdHandled /\ obs.msg.prio < obs.pre.priority) =>
       LET st == node[obs.node]
       IN /\ st.componentId = obs.pre.componentId
          /\ st.parent = obs.pre.parent
          /\ st.priority = obs.pre.priority
          /\ st.routes = obs.pre.routes
          /\ st.link_neighbors = obs.pre.link_neighbors

\* C37: a link newid whose parent field is 0, 255 or at least 128 leaves the
\* receiver's id, parent, priority and routing table as they were.
C37_InvalidParentRejected ==
    (/\ LinkNewIdHandled
     /\ \/ obs.msg.tk \in {SSP_INVALID_COMPONENT_ID, SSP_LINK_ID}
        \/ obs.msg.tk >= SSP_COMPONENT_MODULUS) =>
       LET st == node[obs.node]
       IN /\ st.componentId = obs.pre.componentId
          /\ st.parent = obs.pre.parent
          /\ st.priority = obs.pre.priority
          /\ st.routes = obs.pre.routes

---------------------------------------------------------------------------
\* C38: when an unsubscribe call has removed the last listener of a pair
\* (remote object, symbol), the call has sent an unsub that names the symbol.
C38_LastListenerUnsubs ==
    obs.op = "unsubscribe" =>
       \A s \in Symbols :
          (ListenersOf(obs.pre, obs.to, s) # {} /\ ListenersOf(node[T], obs.to, s) = {})
             => s \in Announced("unsub")

---------------------------------------------------------------------------
\* A central whose directory is full, or has one id left: the ids that
\* _find_free_id hands out are 1..SSP_BIGGEST_REGULAR_COMPONENT_ID - 1.

\* The directory after the central's own entry and k registrations
FilledDirectory(own, k) ==
    own \o [i \in 1..k |-> [id |-> i, name |-> <<"n", i>>, serial |-> 100 + i]]

InitFull ==
    /\ scenario = "register"
    /\ \E k \in {SSP_BIGGEST_REGULAR_COMPONENT_ID - 2,
                 SSP_BIGGEST_REGULAR_COMPONENT_ID - 1} :
         node = [n \in Nodes |->
                   IF n = "A"
                   THEN LET st == act_as_central(NewBase(Name("A"), 10, 50, <<1>>)).st
                        IN [st EXCEPT !.central = FilledDirectory(@, k),
                                      !.constructed = TRUE]
                   ELSE Inert(n)]
    /\ InitCommon

\* A candidate announces itself on the central's link
Announce ==
    /\ scenario = "register"
    /\ steps < MaxRegs
    /\ \E cinfo \in Candidates :
         LET r == handle_message(node["A"], 1, SSP_LINK_ID, cinfo)
         IN /\ node' = [node EXCEPT !["A"] = r.st]
            /\ obs' = Obs("handle_message", "A", node["A"], 1, SSP_LINK_ID, cinfo, r)
    /\ steps' = steps + 1
    /\ UNCHANGED <<chan, probes, call, lock, hist, scenario>>

NextFull == Register \/ Announce

SpecFull == InitFull /\ [][NextFull]_vars

\* C39: the directory never holds an entry with a null id, and the central
\* never sends a newid with a null id.
C39_NoNullId ==
    /\ \A i \in 1..Len(node["A"].central) : node["A"].central[i].id # NoneId
    /\ obs.op = "handle_message" =>
          \A i \in 1..Len(obs.out) :
             obs.out[i].msg.a = "newid" => obs.out[i].msg.id # NoneId

\* ------------------------------------------------------------------------
\* EventThread.blocking_call (src/reactive/eventthread.py): a caller on
\* another thread enqueues a call with a result queue of its own and blocks
\* on that queue; the thread's loop takes items and handles them; stop()
\* may come from any thread.
\* ------------------------------------------------------------------------

MaxBlockingCalls == 3

BlockCallers == {"t1", "t2"}

\* The called function either returns a value or raises an exception
Fns == {"returns", "raises"}

\* The None that stop() puts on the queue
NoneItem == [type |-> "none", caller |-> "none", fn |-> "none"]

CallItem(c, fn) == [type |-> "call", caller |-> c, fn |-> fn]

\* EventThread after start(), run without a scheduler; result_queue[c] is
\* the queue.Queue() that blocking_call creates for caller c
EventThread ==
    [alive |-> TRUE, queue |-> <<>>, pc |-> "test", item |-> NoneItem,
     caller |-> [c \in BlockCallers |-> "idle"],
     result_queue |-> [c \in BlockCallers |-> <<>>],
     calls |-> 0]

InitBlocking ==
    /\ scenario = "blocking"
    /\ node = [n \in Nodes |-> Inert(n)]
    /\ chan = [l \in Links |-> <<>>]
    /\ probes = 0
    /\ steps = 0
    /\ call = EventThread
    /\ lock = "free"
    /\ hist = [n \in Nodes |-> NoHist]
    /\ obs = Obs("init", "A", Inert("A"), NoLink, 0, NoMsg, Res(0, <<>>, <<>>))

BlockingStep(t) ==
    /\ scenario = "blocking"
    /\ call' = t
    /\ UNCHANGED <<node, chan, probes, steps, lock, hist, obs, scenario>>

\* blocking_call from another thread, up to _queue.get(block=True): call()
\* puts the item on the thread's queue whatever _alive is
BlockingCall(c, fn) ==
    /\ call.caller[c] = "idle"
    /\ call.calls < MaxBlockingCalls
    /\ BlockingStep([call EXCEPT !.queue = Append(@, CallItem(c, fn)),
                                 !.caller[c] = "waiting",
                                 !.calls = @ + 1])

\* blocking_call: _queue.get(block=True) returns when a result is there;
\* it has no timeout
BlockingReturn(c) ==
    /\ call.caller[c] = "waiting"
    /\ call.result_queue[c] # <<>>
    /\ BlockingStep([call EXCEPT !.result_queue[c] = Tail(@),
                                 !.caller[c] = "idle"])

\* _run_without_scheduler: while self._alive
LoopTest ==
    /\ call.pc = "test"
    /\ BlockingStep([call EXCEPT !.pc = IF call.alive THEN "get" ELSE "exit"])

\* _run_without_scheduler: item = self._queue.get(block=True, timeout=1);
\* queue.Empty leads back to the test
LoopGet ==
    /\ call.pc = "get"
    /\ BlockingStep(IF call.queue = <<>>
                    THEN [call EXCEPT !.pc = "test"]
                    ELSE [call EXCEPT !.item = Head(call.queue),
                                      !.queue = Tail(@),
                                      !.pc = "handle"])

\* _handle_item: None is ignored; a call that raises returns before the
\* result is put; otherwise the result goes to the item's result_queue
handle_item(t, item) ==
    IF item.type = "none" \/ item.fn = "raises"
    THEN t
    ELSE [t EXCEPT !.result_queue[item.caller] = Append(@, "result")]

HandleItem ==
    /\ call.pc = "handle"
    /\ BlockingStep([handle_item(call, call.item) EXCEPT !.pc = "test",
                                                          !.item = NoneItem])

\* stop() from any thread: nothing if already stopped; the enqueued calls
\* stay on the queue behind no reader
EventThreadStop ==
    /\ call.alive
    /\ BlockingStep([call EXCEPT !.alive = FALSE,
                                 !.queue = Append(@, NoneItem)])

NextBlocking ==
    \/ \E c \in BlockCallers, fn \in Fns : BlockingCall(c, fn)
    \/ \E c \in BlockCallers : BlockingReturn(c)
    \/ LoopTest \/ LoopGet \/ HandleItem
    \/ EventThreadStop

SpecBlocking == InitBlocking /\ [][NextBlocking]_vars

\* The call of caller c is still going to be handled by the thread
Pending(c) ==
    /\ call.pc # "exit"
    /\ \/ \E i \in 1..Len(call.queue) : call.queue[i].caller = c
       \/ call.pc = "handle" /\ call.item.caller = c

\* Caller c blocks in blocking_call and nothing is left that could put a
\* result into its queue
Stranded(c) ==
    /\ call.caller[c] = "waiting"
    /\ call.result_queue[c] = <<>>
    /\ ~Pending(c)

\* C40: a caller of blocking_call is never left blocked without a result
\* to come, also when the called function raises or the thread is stopped
\* before the call is handled.
C40_BlockingCallReturns ==
    scenario = "blocking" => \A c \in BlockCallers : ~Stranded(c)

===========================================================================
